---- MODULE Spec2Model ----
(***************************************************************************)
(* Model of the project form of the Chittoor project tracker               *)
(* (client/pages/projects/ProjectForm.tsx): the village/mandal mapping     *)
(* built at mount from the bundled CSV and the optional remote table, and  *)
(* the cascading mandal/village widgets driven by it, and onSubmit with    *)
(* the requests it sends; and of the approvals list of the dashboard       *)
(* (client/pages/Index.tsx) with its fetch and its realtime handler.       *)
(*                                                                         *)
(* A JavaScript string is modelled as a sequence of one-character strings, *)
(* so that trim, toLowerCase, lastIndexOf, split and includes are computed *)
(* rather than assumed.                                                    *)
(***************************************************************************)
EXTENDS Integers, Sequences, FiniteSets, TLC

----------------------------------------------------------------------------
(* Bounds of the model *)

\* number of lines of the bundled CSV blob
MaxLines == 2

\* number of rows a successful remote query returns
MaxRemoteRows == 2

\* files chosen for upload, and submissions of one form session
MaxImages == 1
MaxSubmits == 2

\* changes other clients make to the backend table, and approvals fetches issued
MaxChanges == 2
MaxFetches == 2
MaxDeletes == 1

----------------------------------------------------------------------------
(* Characters and strings *)

SP == " "
COMMA == ","
LF == "\n"
CR == "\r"

UpperCase == << "A", "B", "C", "D", "E", "F", "G", "H", "I", "J", "K", "L", "M",
                "N", "O", "P", "Q", "R", "S", "T", "U", "V", "W", "X", "Y", "Z" >>

LowerCase == << "a", "b", "c", "d", "e", "f", "g", "h", "i", "j", "k", "l", "m",
                "n", "o", "p", "q", "r", "s", "t", "u", "v", "w", "x", "y", "z" >>

\* the empty string
Empty == << >>

IsSpace(c) == c \in {SP, LF, CR}

\* String.prototype.toLowerCase, one character
LowerChar(c) ==
  IF \E i \in DOMAIN UpperCase : UpperCase[i] = c
  THEN LowerCase[CHOOSE i \in DOMAIN UpperCase : UpperCase[i] = c]
  ELSE c

\* String.prototype.toLowerCase
toLowerCase(s) == [i \in DOMAIN s |-> LowerChar(s[i])]

\* String.prototype.slice(from, to) with 0-based from (inclusive) and to (exclusive)
slice(s, from, to) == SubSeq(s, from + 1, to)

\* String.prototype.trim
trim(s) ==
  LET nonSpace == {i \in DOMAIN s : ~IsSpace(s[i])}
  IN IF nonSpace = {} THEN Empty
     ELSE LET lo == CHOOSE i \in nonSpace : \A j \in nonSpace : i <= j
              hi == CHOOSE i \in nonSpace : \A j \in nonSpace : i >= j
          IN SubSeq(s, lo, hi)

\* String.prototype.lastIndexOf(c) for a one-character needle: 0-based, -1 when absent
lastIndexOf(s, c) ==
  LET hits == {i \in DOMAIN s : s[i] = c}
  IN IF hits = {} THEN -1
     ELSE (CHOOSE i \in hits : \A j \in hits : i >= j) - 1

\* String.prototype.includes
includes(s, q) ==
  \E i \in 0..(Len(s) - Len(q)) : SubSeq(s, i + 1, i + Len(q)) = q

\* csv.split(/\r?\n/): the lines of a blob, a CR directly before the LF goes with the separator
RECURSIVE split(_)
split(s) ==
  LET nls == {i \in DOMAIN s : s[i] = LF}
  IN IF nls = {} THEN << s >>
     ELSE LET i == CHOOSE k \in nls : \A j \in nls : k <= j
              end == IF i > 1 /\ s[i - 1] = CR THEN i - 2 ELSE i - 1
          IN << SubSeq(s, 1, end) >> \o split(SubSeq(s, i + 1, Len(s)))

\* a header test without the i flag
IsHeaderCaseSensitive(ln) ==
  LET v == << "V", "i", "l", "l", "a", "g", "e" >>
      m == << "M", "a", "n", "d", "a", "l" >>
  IN /\ Len(ln) >= Len(v) + 1 + Len(m)
     /\ SubSeq(ln, 1, Len(v)) = v
     /\ SubSeq(ln, Len(ln) - Len(m) + 1, Len(ln)) = m
     /\ LET mid == SubSeq(ln, Len(v) + 1, Len(ln) - Len(m))
        IN /\ Cardinality({i \in DOMAIN mid : mid[i] = COMMA}) = 1
           /\ \A i \in DOMAIN mid : mid[i] = COMMA \/ IsSpace(mid[i])

\* /^Village\s*,\s*Mandal$/i.test(ln)
IsHeader(ln) ==
  LET low == toLowerCase(ln)
      v == << "v", "i", "l", "l", "a", "g", "e" >>
      m == << "m", "a", "n", "d", "a", "l" >>
  IN /\ Len(low) >= Len(v) + 1 + Len(m)
     /\ SubSeq(low, 1, Len(v)) = v
     /\ SubSeq(low, Len(low) - Len(m) + 1, Len(low)) = m
     /\ LET mid == SubSeq(low, Len(v) + 1, Len(low) - Len(m))
        IN /\ Cardinality({i \in DOMAIN mid : mid[i] = COMMA}) = 1
           /\ \A i \in DOMAIN mid : mid[i] = COMMA \/ IsSpace(mid[i])

----------------------------------------------------------------------------
(* parseCSV *)

\* a line split at its first comma
ParseLineFirstComma(line) ==
  LET ln == trim(line)
      hits == {i \in DOMAIN ln : ln[i] = COMMA}
      idx == IF hits = {} THEN -1
             ELSE (CHOOSE i \in hits : \A j \in hits : i <= j) - 1
      village == trim(slice(ln, 0, idx))
      mandal == trim(slice(ln, idx + 1, Len(ln)))
  IN IF ln = Empty THEN << >>
     ELSE IF IsHeader(ln) THEN << >>
     ELSE IF idx = -1 THEN << >>
     ELSE IF village # Empty /\ mandal # Empty
          THEN << [village |-> village, mandal |-> mandal] >>
          ELSE << >>

\* the rows one line of the blob contributes: none or one
ParseLine(line) ==
  LET ln == trim(line)
      idx == lastIndexOf(ln, COMMA)
      village == trim(slice(ln, 0, idx))
      mandal == trim(slice(ln, idx + 1, Len(ln)))
  IN IF ln = Empty THEN << >>
     ELSE IF IsHeader(ln) THEN << >>
     ELSE IF idx = -1 THEN << >>
     ELSE IF village # Empty /\ mandal # Empty
          THEN << [village |-> village, mandal |-> mandal] >>
          ELSE << >>

RECURSIVE ParseLines(_)
ParseLines(lines) ==
  IF lines = << >> THEN << >>
  ELSE ParseLine(Head(lines)) \o ParseLines(Tail(lines))

parseCSV(csv) == ParseLines(split(csv))

----------------------------------------------------------------------------
(* JavaScript Map keyed by string: insertion-ordered, set on a present key
   replaces the value in place *)

\* a map whose set keeps the value a present key already has
MapSetKeepsFirst(m, k, v) ==
  IF \E i \in DOMAIN m : m[i].key = k
  THEN m
  ELSE Append(m, [key |-> k, val |-> v])

MapSet(m, k, v) ==
  IF \E i \in DOMAIN m : m[i].key = k
  THEN [i \in DOMAIN m |-> IF m[i].key = k THEN [key |-> k, val |-> v] ELSE m[i]]
  ELSE Append(m, [key |-> k, val |-> v])

MapValues(m) == [i \in DOMAIN m |-> m[i].val]

\* a key that keeps the spelling of the village
RowKeyExact(r) == r.village

\* the key a row is stored under
RowKey(r) == toLowerCase(r.village)

\* for (const r of rows) map.set(r.village.toLowerCase(), r)
RECURSIVE SetAll(_, _)
SetAll(m, rows) ==
  IF rows = << >> THEN m
  ELSE SetAll(MapSet(m, RowKey(Head(rows)), Head(rows)), Tail(rows))

\* Array.from(new Map(local.map((r) => [r.village.toLowerCase(), r])).values())
Uniq(rows) == MapValues(SetAll(<< >>, rows))

\* String(x || "").trim() for a column value that is a string, null or missing
CellText(cell) == IF cell.kind = "string" THEN trim(cell.val) ELSE Empty

\* (data as any[]).map((r) => ({ village: ..., mandal: ... }))
SupaRows(data) ==
  [i \in DOMAIN data |->
     [village |-> CellText(data[i].village), mandal |-> CellText(data[i].mandal)]]

\* a merge that inserts the remote rows first, so that local rows win
MergeLocalWins(local, supa) == MapValues(SetAll(SetAll(<< >>, supa), local))

\* the merged mapping: local rows first, remote rows second
Merge(local, supa) == MapValues(SetAll(SetAll(<< >>, local), supa))


----------------------------------------------------------------------------
(* localeCompare and the option lists of the two selects *)

\* primary collation weight of a character: punctuation and space before letters,
\* letters in alphabetical order whatever their case
Primary(c) ==
  LET l == LowerChar(c)
  IN IF \E i \in DOMAIN LowerCase : LowerCase[i] = l
     THEN 10 + (CHOOSE i \in DOMAIN LowerCase : LowerCase[i] = l)
     ELSE IF c = SP THEN 1 ELSE IF c = "_" THEN 2 ELSE IF c = COMMA THEN 3 ELSE 4

\* tertiary weight: lower case before upper case
Tertiary(c) == IF \E i \in DOMAIN UpperCase : UpperCase[i] = c THEN 1 ELSE 0

\* lexicographic comparison of two weight sequences: -1, 0 or 1
RECURSIVE LexCmp(_, _)
LexCmp(a, b) ==
  IF a = << >> /\ b = << >> THEN 0
  ELSE IF a = << >> THEN -1
  ELSE IF b = << >> THEN 1
  ELSE IF Head(a) < Head(b) THEN -1
  ELSE IF Head(a) > Head(b) THEN 1
  ELSE LexCmp(Tail(a), Tail(b))

\* a.localeCompare(b): primary differences first, case as the tie-break
localeCompare(a, b) ==
  LET p == LexCmp([i \in DOMAIN a |-> Primary(a[i])], [i \in DOMAIN b |-> Primary(b[i])])
  IN IF p # 0 THEN p
     ELSE LexCmp([i \in DOMAIN a |-> Tertiary(a[i])], [i \in DOMAIN b |-> Tertiary(b[i])])

\* Array.from(new Set(xs)).sort((a, b) => a.localeCompare(b)) of the elements of a set
RECURSIVE SortSet(_)
SortSet(S) ==
  IF S = {} THEN << >>
  ELSE LET least == CHOOSE x \in S : \A y \in S : localeCompare(x, y) <= 0
       IN << least >> \o SortSet(S \ {least})

\* the elements of a sequence, as a set
Range(seq) == {seq[i] : i \in DOMAIN seq}

\* xs.filter(pred) for a sequence of strings
RECURSIVE FilterIncludes(_, _)
FilterIncludes(xs, q) ==
  IF xs = << >> THEN << >>
  ELSE IF includes(toLowerCase(Head(xs)), q)
       THEN << Head(xs) >> \o FilterIncludes(Tail(xs), q)
       ELSE FilterIncludes(Tail(xs), q)

\* _mandals: the distinct non-empty mandals of the mapping, sorted
Mandals(map) == SortSet({map[i].mandal : i \in DOMAIN map} \ {Empty})

\* a mandal filter that starts at three characters, as the village filter does
filteredMandalsFromThree(map, mFilter) ==
  IF Len(trim(mFilter)) >= 3
  THEN FilterIncludes(Mandals(map), toLowerCase(trim(mFilter)))
  ELSE Mandals(map)

\* filteredMandals
filteredMandals(map, mFilter) ==
  IF Len(trim(mFilter)) >= 2
  THEN FilterIncludes(Mandals(map), toLowerCase(trim(mFilter)))
  ELSE Mandals(map)

\* selectedMandal
selectedMandal(formMandal) == trim(formMandal)

\* _villages: the distinct non-empty villages of the source rows, sorted
Villages(map, formMandal) ==
  LET sel == selectedMandal(formMandal)
      source == IF sel # Empty
                THEN {map[i].village : i \in {j \in DOMAIN map : map[j].mandal = sel}}
                ELSE {map[i].village : i \in DOMAIN map}
  IN SortSet(source \ {Empty})

\* a village filter that is not trimmed
filteredVillagesNoTrim(map, formMandal, vFilter) ==
  LET q == toLowerCase(vFilter)
  IN IF Len(q) >= 3 THEN FilterIncludes(Villages(map, formMandal), q)
     ELSE IF selectedMandal(formMandal) # Empty THEN Villages(map, formMandal)
     ELSE << >>

\* filteredVillages
filteredVillages(map, formMandal, vFilter) ==
  LET q == toLowerCase(trim(vFilter))
  IN IF Len(q) >= 3 THEN FilterIncludes(Villages(map, formMandal), q)
     ELSE IF selectedMandal(formMandal) # Empty THEN Villages(map, formMandal)
     ELSE << >>

\* mapping.find((r) => r.village === v): the first record with that village, as a
\* sequence of none or one record
Find(map, v) ==
  LET hits == {i \in DOMAIN map : map[i].village = v}
  IN IF hits = {} THEN << >>
     ELSE << map[CHOOSE i \in hits : \A j \in hits : i <= j] >>

----------------------------------------------------------------------------
(* Inputs: the bundled blob, the rows of the remote table, the texts typed *)

\* lines the bundled villages.csv is made of: two spellings of one village with
\* different mandals, a second village, a village with a comma in its name and a
\* carriage return at the end, the header and a row without mandal
CsvLines ==
  { << "k", "a", "d", COMMA, "x", "m" >>,
    << "K", "a", "d", COMMA, SP, "y", "m" >>,
    << "p", "u", "n", COMMA, "x", "m" >>,
    << "a", COMMA, SP, "b", COMMA, "y", "m", CR >>,
    << "V", "i", "l", "l", "a", "g", "e", COMMA, SP, "M", "a", "n", "d", "a", "l" >>,
    << "k", "a", "d", COMMA >> }

\* lines joined by line feeds
RECURSIVE JoinLines(_)
JoinLines(lines) ==
  IF lines = << >> THEN Empty
  ELSE IF Len(lines) = 1 THEN Head(lines)
  ELSE Head(lines) \o << LF >> \o JoinLines(Tail(lines))

\* the blobs villages.csv may hold
Blobs == {JoinLines(ls) : ls \in UNION {[1..n -> CsvLines] : n \in 0..MaxLines}}

\* further lines for the parse alone: a line without comma, a blank line, the header
\* in another letter case with other blanks, and a row without village
ParseCsvLines ==
  CsvLines \cup
  { << "k", "a", "d" >>,
    << SP >>,
    << "v", "I", "L", "L", "A", "G", "E", SP, COMMA, "m", "a", "n", "d", "a", "l" >>,
    << COMMA, "x", "m" >> }

ParseBlobs == {JoinLines(ls) : ls \in UNION {[1..n -> ParseCsvLines] : n \in 0..MaxLines}}

Str(s) == [kind |-> "string", val |-> s]
Null == [kind |-> "null", val |-> Empty]

\* rows of the remote table mandal_villages: a village the blob has too, the same
\* village in another spelling with surrounding blanks, a village only the table
\* has, a row without village and a row with a blank mandal
RemoteRows ==
  { [village |-> Str(<< "k", "a", "d" >>), mandal |-> Str(<< "z", "m" >>)],
    [village |-> Str(<< SP, "K", "A", "D", SP >>), mandal |-> Str(<< "w", "m" >>)],
    [village |-> Str(<< "t", "i", "r" >>), mandal |-> Str(<< "z", "m" >>)],
    [village |-> Null, mandal |-> Str(<< "z", "m" >>)],
    [village |-> Str(<< "p", "u", "n" >>), mandal |-> Str(<< SP >>)] }

\* how the query of the remote table ends: it resolves to { data, error } with
\* an array of rows, with an error, or with data that is no array; or it throws
Resolves(d) == [kind |-> "resolve", error |-> FALSE, isArray |-> TRUE, data |-> d]
ResolvesError == [kind |-> "resolve", error |-> TRUE, isArray |-> FALSE, data |-> << >>]
ResolvesNoArray == [kind |-> "resolve", error |-> FALSE, isArray |-> FALSE, data |-> << >>]
Rejects == [kind |-> "reject", error |-> FALSE, isArray |-> FALSE, data |-> << >>]

\* no query is ever issued: the backend is not configured
NoQuery == [kind |-> "none", error |-> FALSE, isArray |-> FALSE, data |-> << >>]

FetchOutcomes ==
  {Resolves(d) : d \in UNION {[1..n -> RemoteRows] : n \in 0..MaxRemoteRows}}
  \cup {ResolvesError, ResolvesNoArray, Rejects}

\* the blobs and fetch outcomes the widgets are exercised with
FormBlobs ==
  { Empty,
    JoinLines(<< << "k", "a", "d", COMMA, "x", "m" >>, << "p", "u", "n", COMMA, "x", "m" >> >>),
    JoinLines(<< << "k", "a", "d", COMMA, "x", "m" >>, << "K", "a", "d", COMMA, SP, "y", "m" >> >>) }

FormFetchOutcomes ==
  { Rejects,
    ResolvesError,
    ResolvesNoArray,
    Resolves(<< [village |-> Str(<< "t", "i", "r" >>), mandal |-> Str(<< "z", "m" >>)],
                [village |-> Null, mandal |-> Str(<< "z", "m" >>)] >>),
    Resolves(<< [village |-> Str(<< "k", "a", "d" >>), mandal |-> Str(<< "z", "m" >>)],
                [village |-> Str(<< "p", "u", "n" >>), mandal |-> Str(<< SP >>)] >>) }

\* texts typed into the village filter
VillageFilterTexts == {Empty, << SP, "K", "A" >>, << "k", "a", "d" >>}

\* texts typed into the mandal filter
MandalFilterTexts == {Empty, << "X", "M" >>}

\* texts typed into the filters when the option lists are examined: short ones, ones
\* with blanks around them and ones in another letter case
VillageFilterInputs ==
  {Empty, << SP, "K", "A" >>, << "K", "A", "D", SP >>, << "p", "u", "n" >>}

MandalFilterInputs == {Empty, << "x" >>, << SP, "M" >>, << "X", "m", SP >>}

\* texts typed into the manual and the plain inputs
TypedTexts == {Empty, << "q" >>}

\* the value of the 'Other' option of both selects
OtherOption == << "_", "_", "o", "t", "h", "e", "r", "_", "_" >>

\* the village and mandal columns of the record an edit session loads, and the
\* number of urls in its images column (0 when that is no array)
LoadedRecords ==
  { [village |-> Null, mandal |-> Null, images |-> 0],
    [village |-> Str(<< "o", "l", "d" >>), mandal |-> Str(<< "x", "m" >>), images |-> 1] }

\* messages of a failed load
LoadErrorMessages == {"", "row not found"}

----------------------------------------------------------------------------
(* State *)

VARIABLES
  id,              \* route parameter: "none" for a new project
  hasSupabaseEnv,  \* whether the remote backend is configured
  villagesCSV,     \* the bundled blob
  remote,          \* how the query of the remote table ends when it is issued
  mountPc,         \* which mount effect runs next: "loadEffect", "mappingEffect", "mounted"
  loadPc,          \* load(): "idle", "pending", "done"
  loading,
  loadError,       \* "null" or the message shown
  local,           \* parseCSV(villagesCSV), held by the mapping effect
  mapPc,           \* the mapping effect: "idle", "pending", "done"
  mapping,
  fetchCount,      \* number of remote queries issued
  assignCount,     \* number of setMapping calls
  village,         \* form value "village"
  mandal,          \* form value "mandal"
  villageFilter,
  mandalFilter,
  manualMode,
  manualVillage,
  manualMandal,
  existingImages,  \* number of image urls the loaded record has
  imageFiles,      \* number of files chosen for upload
  submitPc,        \* onSubmit: "idle", "write", "upload", "images"
  targetId,        \* onSubmit's targetId, "none" for null
  uploaded,        \* files onSubmit has uploaded so far
  submits,         \* number of submissions
  lastWrite,       \* the last request the form sent to the approvals table
  alerts,          \* number of alert() calls
  navigated,       \* navigate("/") was called
  table,           \* backend: the rows of chittoor_project_approvals, oldest first
  storage,         \* backend: number of objects in the bucket project-images
  created,         \* backend: number of rows ever inserted
  changes,         \* number of changes other clients made to the table
  dashPc,          \* dashboard: "constructed" or "mounted"
  approvals,       \* dashboard: the approvals list
  approvalsLoading,
  approvalsError,  \* dashboard: "null" or the message shown
  fetches,         \* dashboard: the approvals fetches issued, each with its stage
  events,          \* realtime events on their way to the dashboard, oldest first
  deletes,         \* dashboard: the approval deletes requested, each with its stage
  dashAlerts,      \* dashboard: number of alert() calls
  record,  \* dashboard: the project record whose status is derived
  derived,  \* "none" or what deriveProjectStatus ended with
  activeTab,  \* dashboard: "approvals", "projects" or "analytics"
  projects,  \* dashboard: the list of chitoor_projects records
  projectsLoading,
  projectsError,  \* "null" or a message
  projectsFetched,
  selectedProjectId,  \* Null or the text of an id
  projFetches,  \* the fetches of chitoor_projects the dashboard has started
  autoPending,  \* the tab effect has a changed dependency and has not run yet
  selPending,  \* the selection effect has a changed dependency and has not run yet
  appPc,  \* router: "constructed" or "mounted"
  path,  \* router: the pathname of the current location
  fromState,  \* router: "none" or the pathname of location.state.from
  user,  \* auth context: "null" or the id of the signed-in user
  authLoading,  \* auth context: loading
  session,  \* the session the auth backend holds: "null" or a user id
  sessionPc,  \* getSession of the provider: "idle", "sent" or "done"
  notifyPending,  \* the auth backend has a state change to tell the subscriber
  signInPc,  \* handleSubmit of the login page: "idle", "sent", "ok" or "error"
  loginError,  \* login page: "null" or the message shown
  lastOp           \* the handler that ran last and its argument

vars == << id, hasSupabaseEnv, villagesCSV, remote, mountPc, loadPc, loading,
           loadError, local, mapPc, mapping, fetchCount, assignCount, village, mandal,
           villageFilter, mandalFilter, manualMode, manualVillage, manualMandal,
           existingImages, imageFiles, submitPc, targetId, uploaded, submits, lastWrite,
           alerts, navigated, table, storage, created, changes, dashPc, approvals,
           approvalsLoading, approvalsError, fetches, events, deletes, dashAlerts, record, derived,
           activeTab, projects, projectsLoading, projectsError, projectsFetched,
           selectedProjectId, projFetches, autoPending, selPending,
           appPc, path, fromState, user, authLoading, session, sessionPc, notifyPending,
           signInPc, loginError,
           lastOp >>

envVars == << id, hasSupabaseEnv, villagesCSV, remote >>
loadVars == << loadPc, loading, loadError >>
mapVars == << local, mapPc, mapping, fetchCount, assignCount >>
fieldVars == << village, mandal >>
widgetVars == << villageFilter, mandalFilter, manualMode, manualVillage, manualMandal >>
submitVars == << imageFiles, submitPc, targetId, uploaded, submits, lastWrite, alerts, navigated >>
backendVars == << table, storage, created, changes >>
dashVars == << dashPc, approvals, approvalsLoading, approvalsError, fetches, events >>
deleteVars == << deletes, dashAlerts >>
statusVars == << record, derived >>
projVars == << activeTab, projects, projectsLoading, projectsError, projectsFetched,
              selectedProjectId, projFetches, autoPending, selPending >>
authVars == << appPc, path, fromState, user, authLoading, session, sessionPc, notifyPending,
              signInPc, loginError >>
pageVars == << deleteVars, statusVars, projVars, authVars >>
formVars == << mountPc, existingImages, loadVars, mapVars, fieldVars, widgetVars, submitVars >>

Op(name, arg) == [op |-> name, arg |-> arg]

\* the id of the k-th row inserted into the approvals table
RowId(k) == "p" \o ToString(k)

\* the values of the column approval_status
ApprovalStatuses == {"pending", "approved", "rejected"}

\* a row of chittoor_project_approvals: its id, its approval status and the number
\* of urls in its images column
Row(i, status, imgs) == [id |-> i, approval_status |-> status, images |-> imgs]

\* the fields of the form schema
SchemaColumns ==
  { "project_name", "date", "capacity_kw", "village", "mandal", "power_bill_number",
    "project_cost", "site_visit_status", "payment_amount", "banking_ref_id",
    "service_number", "service_status", "biller_name", "customer_mobile_number",
    "site_visitor_name", "subsidy_scope" }

\* a request to the approvals table: its kind, the id it is restricted to, the
\* columns it carries, and the values of the columns approval_status and images
Request(kind, target, columns, status, imgs) ==
  [kind |-> kind, target |-> target, columns |-> columns, approval_status |-> status,
   images |-> imgs]

NoRequest == Request("none", "none", {}, "absent", 0)

\* the table of a session: the record under edit exists, with any approval status
TableOf(i, status) == IF i = "none" THEN << >> ELSE << Row(i, status, 0) >>

\* the form after construction: the useState and useForm defaults
FormConstructed ==
  /\ mountPc = "loadEffect"
  /\ loadPc = "idle"
  /\ loading = FALSE
  /\ loadError = "null"
  /\ local = << >>
  /\ mapPc = "idle"
  /\ mapping = << >>
  /\ fetchCount = 0
  /\ assignCount = 0
  /\ village = Empty
  /\ mandal = Empty
  /\ villageFilter = Empty
  /\ mandalFilter = Empty
  /\ manualMode = FALSE
  /\ manualVillage = Empty
  /\ manualMandal = Empty
  /\ existingImages = 0
  /\ imageFiles = 0
  /\ submitPc = "idle"
  /\ targetId = "none"
  /\ uploaded = 0
  /\ submits = 0
  /\ lastWrite = NoRequest
  /\ alerts = 0
  /\ navigated = FALSE

\* the approvals state of the dashboard after construction
DashConstructed ==
  /\ dashPc = "constructed"
  /\ approvals = << >>
  /\ approvalsLoading = FALSE
  /\ approvalsError = "null"
  /\ fetches = << >>
  /\ events = << >>

\* a record without any column
NoRecord == << >>

\* the rest of the dashboard and the router after construction
PageConstructed ==
  /\ deletes = << >>
  /\ dashAlerts = 0
  /\ record = NoRecord
  /\ derived = "none"
  /\ activeTab = "approvals"
  /\ projects = << >>
  /\ projectsLoading = FALSE
  /\ projectsError = "null"
  /\ projectsFetched = FALSE
  /\ selectedProjectId = Null
  /\ projFetches = << >>
  /\ autoPending = FALSE
  /\ selPending = FALSE
  /\ appPc = "constructed"
  /\ path = "/"
  /\ fromState = "none"
  /\ user = "null"
  /\ authLoading = TRUE
  /\ session = "null"
  /\ sessionPc = "idle"
  /\ notifyPending = FALSE
  /\ signInPc = "idle"
  /\ loginError = "null"

\* the state after construction: the useState and useForm defaults, nothing stored
\* and nothing changed by other clients yet
Constructed ==
  /\ FormConstructed
  /\ storage = 0
  /\ changes = 0
  /\ DashConstructed
  /\ PageConstructed
  /\ lastOp = Op("none", Empty)

\* a new project, with any bundled blob and any outcome of the remote query
InitMapping ==
  /\ id = "none"
  /\ table = << >>
  /\ created = 0
  /\ hasSupabaseEnv \in BOOLEAN
  /\ villagesCSV \in Blobs
  /\ remote \in IF hasSupabaseEnv THEN FetchOutcomes ELSE {NoQuery}
  /\ Constructed

\* a new project on the blobs and fetch outcomes of the widgets
InitOptions ==
  /\ id = "none"
  /\ table = << >>
  /\ created = 0
  /\ hasSupabaseEnv \in BOOLEAN
  /\ villagesCSV \in FormBlobs
  /\ remote \in IF hasSupabaseEnv THEN FormFetchOutcomes ELSE {NoQuery}
  /\ Constructed

\* a session of the form that goes on to submit: a new project or a record under
\* edit with any approval status, the remote mapping query failing
InitSubmit ==
  /\ id \in {"none", "p1"}
  /\ hasSupabaseEnv \in BOOLEAN
  /\ villagesCSV = Empty
  /\ remote = IF hasSupabaseEnv THEN Rejects ELSE NoQuery
  /\ \E status \in ApprovalStatuses : table = TableOf(id, status)
  /\ created = Len(table)
  /\ Constructed

\* the dashboard on a table that is empty or holds one record; no form is open
InitDash ==
  /\ id = "none"
  /\ hasSupabaseEnv \in BOOLEAN
  /\ villagesCSV = Empty
  /\ remote = NoQuery
  /\ table \in {<< >>, << Row(RowId(1), "pending", 0) >>}
  /\ created = Len(table)
  /\ Constructed

\* a new project without backend, with any blob of the parse lines
InitParse ==
  /\ id = "none"
  /\ table = << >>
  /\ created = 0
  /\ hasSupabaseEnv = FALSE
  /\ villagesCSV \in ParseBlobs
  /\ remote = NoQuery
  /\ Constructed

Init ==
  /\ id \in {"none", "p1"}
  /\ table = TableOf(id, "pending")
  /\ created = Len(table)
  /\ hasSupabaseEnv \in BOOLEAN
  /\ villagesCSV \in FormBlobs
  /\ remote \in IF hasSupabaseEnv THEN FormFetchOutcomes ELSE {NoQuery}
  /\ Constructed

----------------------------------------------------------------------------
(* Mount: the two effects, in the order the component declares them *)

\* useEffect(() => { if (!id || !hasSupabaseEnv) return; void load(); }, [id]),
\* with load() up to its await
LoadEffect ==
  /\ mountPc = "loadEffect"
  /\ IF id = "none" \/ ~hasSupabaseEnv
     THEN UNCHANGED << loadPc, loading >>
     ELSE /\ loading' = TRUE
          /\ loadPc' = "pending"
  /\ mountPc' = "mappingEffect"
  /\ lastOp' = Op("loadEffect", Empty)
  /\ UNCHANGED << envVars, pageVars, existingImages, submitVars, backendVars, dashVars, loadError, mapVars, fieldVars, widgetVars >>

\* a mapping effect that exposes the local rows before it issues the query
MappingEffectLocalFirst ==
  /\ mountPc = "mappingEffect"
  /\ local' = parseCSV(villagesCSV)
  /\ mapping' = Uniq(local')
  /\ assignCount' = assignCount + 1
  /\ IF ~hasSupabaseEnv
     THEN /\ mapPc' = "done"
          /\ UNCHANGED fetchCount
     ELSE /\ fetchCount' = fetchCount + 1
          /\ mapPc' = "pending"
  /\ mountPc' = "mounted"
  /\ lastOp' = Op("mappingEffect", Empty)
  /\ UNCHANGED << envVars, pageVars, existingImages, submitVars, backendVars, dashVars, loadVars, fieldVars, widgetVars >>

\* the mapping effect up to its await: parse the bundled blob, then either expose
\* the local rows or issue the query of the remote table
MappingEffect ==
  /\ mountPc = "mappingEffect"
  /\ local' = parseCSV(villagesCSV)
  /\ IF ~hasSupabaseEnv
     THEN /\ mapping' = Uniq(local')
          /\ assignCount' = assignCount + 1
          /\ mapPc' = "done"
          /\ UNCHANGED fetchCount
     ELSE /\ fetchCount' = fetchCount + 1
          /\ mapPc' = "pending"
          /\ UNCHANGED << mapping, assignCount >>
  /\ mountPc' = "mounted"
  /\ lastOp' = Op("mappingEffect", Empty)
  /\ UNCHANGED << envVars, pageVars, existingImages, submitVars, backendVars, dashVars, loadVars, fieldVars, widgetVars >>

\* supa: the rows taken from the query's result
Supa(res) == IF ~res.error /\ res.isArray THEN SupaRows(res.data) ELSE << >>

\* the query resolved: the rest of the try block
FetchResolved ==
  /\ mapPc = "pending"
  /\ remote.kind = "resolve"
  /\ mapping' = Merge(local, Supa(remote))
  /\ assignCount' = assignCount + 1
  /\ mapPc' = "done"
  /\ lastOp' = Op("fetchResolved", Empty)
  /\ UNCHANGED << envVars, pageVars, existingImages, submitVars, backendVars, dashVars, mountPc, loadVars, local, fetchCount, fieldVars, widgetVars >>

\* a catch block that leaves the mapping empty
FetchRejectedNoFallback ==
  /\ mapPc = "pending"
  /\ remote.kind = "reject"
  /\ mapping' = << >>
  /\ assignCount' = assignCount + 1
  /\ mapPc' = "done"
  /\ lastOp' = Op("fetchRejected", Empty)
  /\ UNCHANGED << envVars, pageVars, existingImages, submitVars, backendVars, dashVars, mountPc, loadVars, local, fetchCount, fieldVars, widgetVars >>

\* the query threw: the catch block
FetchRejected ==
  /\ mapPc = "pending"
  /\ remote.kind = "reject"
  /\ mapping' = Uniq(local)
  /\ assignCount' = assignCount + 1
  /\ mapPc' = "done"
  /\ lastOp' = Op("fetchRejected", Empty)
  /\ UNCHANGED << envVars, pageVars, existingImages, submitVars, backendVars, dashVars, mountPc, loadVars, local, fetchCount, fieldVars, widgetVars >>

\* p.village ?? ""
OrEmpty(cell) == IF cell.kind = "string" THEN cell.val ELSE Empty

\* load() after its await, the record arrived: form.reset and finally
LoadResolved(p) ==
  /\ loadPc = "pending"
  /\ village' = OrEmpty(p.village)
  /\ mandal' = OrEmpty(p.mandal)
  /\ loading' = FALSE
  /\ loadPc' = "done"
  /\ existingImages' = p.images
  /\ lastOp' = Op("loadResolved", Empty)
  /\ UNCHANGED << envVars, pageVars, submitVars, backendVars, dashVars, mountPc, loadError, mapVars, widgetVars >>

\* load() after its await, the query failed: catch and finally
LoadFailed(msg) ==
  /\ loadPc = "pending"
  /\ loadError' = IF msg # "" THEN msg ELSE "Failed to load project"
  /\ loading' = FALSE
  /\ loadPc' = "done"
  /\ lastOp' = Op("loadFailed", Empty)
  /\ UNCHANGED << envVars, pageVars, existingImages, submitVars, backendVars, dashVars, mountPc, mapVars, fieldVars, widgetVars >>

----------------------------------------------------------------------------
(* Handlers of the village/mandal widgets *)

\* mapping.length > 0: the selects are rendered instead of the plain inputs
ShowSelects == Len(mapping) > 0

\* the values of the options of the mandal select
MandalOptions == {Empty} \cup Range(filteredMandals(mapping, mandalFilter)) \cup {OtherOption}

\* the values of the options of the village select
VillageOptions ==
  {Empty} \cup Range(filteredVillages(mapping, mandal, villageFilter)) \cup {OtherOption}

\* onChange of the mandal filter input
TypeMandalFilter(t) ==
  /\ mountPc = "mounted"
  /\ ShowSelects
  /\ mandalFilter' = t
  /\ lastOp' = Op("typeMandalFilter", t)
  /\ UNCHANGED << envVars, pageVars, existingImages, submitVars, backendVars, dashVars, mountPc, loadVars, mapVars, fieldVars, villageFilter, manualMode,
                  manualVillage, manualMandal >>

\* a mandal select that keeps the village and its filter
SelectMandalKeepsVillage(m) ==
  /\ mountPc = "mounted"
  /\ ShowSelects
  /\ m \in MandalOptions
  /\ IF m = OtherOption
     THEN /\ manualMode' = TRUE
          /\ mandal' = Empty
          /\ manualMandal' = Empty
     ELSE /\ mandal' = m
          /\ manualMode' = FALSE
          /\ UNCHANGED manualMandal
  /\ lastOp' = Op("selectMandal", m)
  /\ UNCHANGED << envVars, pageVars, existingImages, submitVars, backendVars, dashVars, mountPc, loadVars, mapVars, village, villageFilter,
                  mandalFilter, manualVillage >>

\* onChange of the mandal select
SelectMandal(m) ==
  /\ mountPc = "mounted"
  /\ ShowSelects
  /\ m \in MandalOptions
  /\ IF m = OtherOption
     THEN /\ manualMode' = TRUE
          /\ mandal' = Empty
          /\ manualMandal' = Empty
          /\ UNCHANGED << village, villageFilter >>
     ELSE /\ mandal' = m
          /\ village' = Empty
          /\ villageFilter' = Empty
          /\ manualMode' = FALSE
          /\ UNCHANGED manualMandal
  /\ lastOp' = Op("selectMandal", m)
  /\ UNCHANGED << envVars, pageVars, existingImages, submitVars, backendVars, dashVars, mountPc, loadVars, mapVars, mandalFilter, manualVillage >>

\* onChange of the village filter input
TypeVillageFilter(t) ==
  /\ mountPc = "mounted"
  /\ ShowSelects
  /\ ~manualMode
  /\ villageFilter' = t
  /\ lastOp' = Op("typeVillageFilter", t)
  /\ UNCHANGED << envVars, pageVars, existingImages, submitVars, backendVars, dashVars, mountPc, loadVars, mapVars, fieldVars, mandalFilter, manualMode,
                  manualVillage, manualMandal >>

\* a village select that does not fill in the mandal
SelectVillageNoAutofill(v) ==
  /\ mountPc = "mounted"
  /\ ShowSelects
  /\ ~manualMode
  /\ v \in VillageOptions
  /\ IF v = OtherOption
     THEN /\ manualMode' = TRUE
          /\ village' = Empty
          /\ mandal' = Empty
          /\ manualVillage' = Empty
          /\ manualMandal' = Empty
     ELSE /\ village' = v
          /\ manualMode' = FALSE
          /\ UNCHANGED << mandal, manualVillage, manualMandal >>
  /\ lastOp' = Op("selectVillage", v)
  /\ UNCHANGED << envVars, pageVars, existingImages, submitVars, backendVars, dashVars, mountPc, loadVars, mapVars, villageFilter, mandalFilter >>

\* onChange of the village select
SelectVillage(v) ==
  /\ mountPc = "mounted"
  /\ ShowSelects
  /\ ~manualMode
  /\ v \in VillageOptions
  /\ IF v = OtherOption
     THEN /\ manualMode' = TRUE
          /\ village' = Empty
          /\ mandal' = Empty
          /\ manualVillage' = Empty
          /\ manualMandal' = Empty
     ELSE /\ village' = v
          /\ LET rec == Find(mapping, v)
             IN mandal' = IF rec # << >> THEN rec[1].mandal ELSE Empty
          /\ manualMode' = FALSE
          /\ UNCHANGED << manualVillage, manualMandal >>
  /\ lastOp' = Op("selectVillage", v)
  /\ UNCHANGED << envVars, pageVars, existingImages, submitVars, backendVars, dashVars, mountPc, loadVars, mapVars, villageFilter, mandalFilter >>

\* onChange of the manual village input
TypeManualVillage(t) ==
  /\ mountPc = "mounted"
  /\ ShowSelects
  /\ manualMode
  /\ manualVillage' = t
  /\ village' = t
  /\ lastOp' = Op("typeManualVillage", t)
  /\ UNCHANGED << envVars, pageVars, existingImages, submitVars, backendVars, dashVars, mountPc, loadVars, mapVars, mandal, villageFilter, mandalFilter,
                  manualMode, manualMandal >>

\* onChange of the manual mandal input
TypeManualMandal(t) ==
  /\ mountPc = "mounted"
  /\ ShowSelects
  /\ manualMode
  /\ manualMandal' = t
  /\ mandal' = t
  /\ lastOp' = Op("typeManualMandal", t)
  /\ UNCHANGED << envVars, pageVars, existingImages, submitVars, backendVars, dashVars, mountPc, loadVars, mapVars, village, villageFilter, mandalFilter,
                  manualMode, manualVillage >>

\* a Cancel that leaves the manual texts in place
CancelManualKeepsText ==
  /\ mountPc = "mounted"
  /\ ShowSelects
  /\ manualMode
  /\ manualMode' = FALSE
  /\ lastOp' = Op("cancelManual", Empty)
  /\ UNCHANGED << envVars, pageVars, existingImages, submitVars, backendVars, dashVars, mountPc, loadVars, mapVars, fieldVars, villageFilter,
                  mandalFilter, manualVillage, manualMandal >>

\* onClick of Cancel in manual mode
CancelManual ==
  /\ mountPc = "mounted"
  /\ ShowSelects
  /\ manualMode
  /\ manualMode' = FALSE
  /\ manualVillage' = Empty
  /\ manualMandal' = Empty
  /\ lastOp' = Op("cancelManual", Empty)
  /\ UNCHANGED << envVars, pageVars, existingImages, submitVars, backendVars, dashVars, mountPc, loadVars, mapVars, fieldVars, villageFilter, mandalFilter >>

\* typing in the plain village input (form.register("village"))
TypeVillagePlain(t) ==
  /\ mountPc = "mounted"
  /\ ~ShowSelects
  /\ village' = t
  /\ lastOp' = Op("typeVillagePlain", t)
  /\ UNCHANGED << envVars, pageVars, existingImages, submitVars, backendVars, dashVars, mountPc, loadVars, mapVars, mandal, widgetVars >>

\* a blur that empties the mandal whenever no record has the typed village
BlurVillagePlainClears ==
  /\ mountPc = "mounted"
  /\ ~ShowSelects
  /\ IF village # Empty
     THEN LET rec == Find(mapping, village)
          IN mandal' = IF rec # << >> THEN rec[1].mandal ELSE Empty
     ELSE UNCHANGED mandal
  /\ lastOp' = Op("blurVillagePlain", Empty)
  /\ UNCHANGED << envVars, pageVars, existingImages, submitVars, backendVars, dashVars, mountPc, loadVars, mapVars, village, widgetVars >>

\* onBlur of the plain village input
BlurVillagePlain ==
  /\ mountPc = "mounted"
  /\ ~ShowSelects
  /\ IF village # Empty /\ Len(mapping) # 0
     THEN LET rec == Find(mapping, village)
          IN mandal' = IF rec # << >> THEN rec[1].mandal ELSE mandal
     ELSE UNCHANGED mandal
  /\ lastOp' = Op("blurVillagePlain", Empty)
  /\ UNCHANGED << envVars, pageVars, existingImages, submitVars, backendVars, dashVars, mountPc, loadVars, mapVars, village, widgetVars >>

\* typing in the plain mandal input (form.register("mandal"))
TypeMandalPlain(t) ==
  /\ mountPc = "mounted"
  /\ ~ShowSelects
  /\ mandal' = t
  /\ lastOp' = Op("typeMandalPlain", t)
  /\ UNCHANGED << envVars, pageVars, existingImages, submitVars, backendVars, dashVars, mountPc, loadVars, mapVars, village, widgetVars >>

\* the steps of mount and of the two asynchronous loads
----------------------------------------------------------------------------
(* The backend table, as the external CRM and the form's requests change it *)

\* a realtime event of the table: for INSERT and UPDATE row is payload.new, for
\* DELETE it is payload.old
Event(type, row) == [eventType |-> type, row |-> row]

\* the events of a change reach a dashboard that has subscribed
Publish(ev) ==
  events' = IF dashPc = "mounted" /\ hasSupabaseEnv THEN Append(events, ev) ELSE events

\* the table after an update request: the rows with the request's id take the
\* values of the columns the request carries
UpdateRows(rows, req) ==
  [i \in DOMAIN rows |->
     IF rows[i].id # req.target THEN rows[i]
     ELSE [rows[i] EXCEPT
             !.approval_status =
                IF "approval_status" \in req.columns THEN req.approval_status ELSE @,
             !.images = IF "images" \in req.columns THEN req.images ELSE @]]

\* the row an insert request creates; a column the request does not carry is null
InsertedRow(req, k) ==
  Row(RowId(k),
      IF "approval_status" \in req.columns THEN req.approval_status ELSE "null",
      IF "images" \in req.columns THEN req.images ELSE 0)

\* the CRM decides on a record: approval_status is managed by crm.axisogreen.in
CrmDecides(i, status) ==
  /\ changes < MaxChanges
  /\ i \in DOMAIN table
  /\ table[i].approval_status # status
  /\ table' = [table EXCEPT ![i].approval_status = status]
  /\ changes' = changes + 1
  /\ Publish(Event("UPDATE", table'[i]))
  /\ lastOp' = Op("crmDecides", Empty)
  /\ UNCHANGED << envVars, pageVars, formVars, storage, created, dashPc, approvals,
                  approvalsLoading, approvalsError, fetches >>

\* another client inserts a record
OtherInsert ==
  /\ changes < MaxChanges
  /\ table' = Append(table, Row(RowId(created + 1), "pending", 0))
  /\ created' = created + 1
  /\ changes' = changes + 1
  /\ Publish(Event("INSERT", table'[Len(table')]))
  /\ lastOp' = Op("otherInsert", Empty)
  /\ UNCHANGED << envVars, pageVars, formVars, storage, dashPc, approvals, approvalsLoading,
                  approvalsError, fetches >>

\* another client deletes a record
OtherDelete(i) ==
  /\ changes < MaxChanges
  /\ i \in DOMAIN table
  /\ table' = SubSeq(table, 1, i - 1) \o SubSeq(table, i + 1, Len(table))
  /\ changes' = changes + 1
  /\ Publish(Event("DELETE", table[i]))
  /\ lastOp' = Op("otherDelete", Empty)
  /\ UNCHANGED << envVars, pageVars, formVars, storage, created, dashPc, approvals,
                  approvalsLoading, approvalsError, fetches >>

----------------------------------------------------------------------------
(* The dashboard: the approvals list, its fetch and its realtime handler *)

\* an approvals fetch: "sent", "answered" once the backend has read the table
\* for it, "done" or "failed" once its promise has settled
Fetch(stage, data) == [stage |-> stage, data |-> data]

\* .select("*").order("created_at", { ascending: false }): the rows, newest first
SelectAll(rows) == [i \in DOMAIN rows |-> rows[Len(rows) + 1 - i]]

\* { ...p, ...n }
Spread(p, n) ==
  [f \in DOMAIN p \cup DOMAIN n |-> IF f \in DOMAIN n THEN n[f] ELSE p[f]]

\* an updater that puts an inserted record at the end of the list
ApplyEventAppends(prev, ev) ==
  IF ev.eventType = "INSERT" THEN prev \o << ev.row >>
  ELSE IF ev.eventType = "UPDATE"
       THEN [i \in DOMAIN prev |->
               IF prev[i].id = ev.row.id THEN Spread(prev[i], ev.row) ELSE prev[i]]
  ELSE IF ev.eventType = "DELETE" THEN SelectSeq(prev, LAMBDA q : q.id # ev.row.id)
  ELSE prev

\* the updater the realtime handler passes to setApprovals
ApplyEvent(prev, ev) ==
  IF ev.eventType = "INSERT" THEN << ev.row >> \o prev
  ELSE IF ev.eventType = "UPDATE"
       THEN [i \in DOMAIN prev |->
               IF prev[i].id = ev.row.id THEN Spread(prev[i], ev.row) ELSE prev[i]]
  ELSE IF ev.eventType = "DELETE" THEN SelectSeq(prev, LAMBDA q : q.id # ev.row.id)
  ELSE prev

\* fetchApprovals up to its await
FetchApprovalsStart ==
  /\ approvalsLoading' = TRUE
  /\ approvalsError' = "null"
  /\ fetches' = Append(fetches, Fetch("sent", << >>))

\* the mount of the dashboard: the effect that fetches the approvals and the
\* effect that subscribes to the realtime channel, both only with a backend
DashMount ==
  /\ dashPc = "constructed"
  /\ dashPc' = "mounted"
  /\ IF hasSupabaseEnv
     THEN FetchApprovalsStart
     ELSE UNCHANGED << approvalsLoading, approvalsError, fetches >>
  /\ lastOp' = Op("dashMount", Empty)
  /\ UNCHANGED << envVars, pageVars, formVars, backendVars, approvals, events >>

\* onClick of Refresh Approvals, disabled without a backend
RefreshApprovals ==
  /\ dashPc = "mounted"
  /\ hasSupabaseEnv
  /\ Len(fetches) < MaxFetches
  /\ FetchApprovalsStart
  /\ lastOp' = Op("refreshApprovals", Empty)
  /\ UNCHANGED << envVars, pageVars, formVars, backendVars, dashPc, approvals, events >>

\* the backend reads the table for a fetch
BackendAnswers(k) ==
  /\ k \in DOMAIN fetches
  /\ fetches[k].stage = "sent"
  /\ fetches' = [fetches EXCEPT ![k] = Fetch("answered", SelectAll(table))]
  /\ lastOp' = Op("backendAnswers", Empty)
  /\ UNCHANGED << envVars, pageVars, formVars, backendVars, dashPc, approvals, approvalsLoading,
                  approvalsError, events >>

\* fetchApprovals after its await, with rows: the list is replaced by them
FetchApprovalsResolved(k) ==
  /\ k \in DOMAIN fetches
  /\ fetches[k].stage = "answered"
  /\ approvals' = fetches[k].data
  /\ approvalsLoading' = FALSE
  /\ fetches' = [fetches EXCEPT ![k].stage = "done"]
  /\ lastOp' = Op("fetchApprovalsResolved", Empty)
  /\ UNCHANGED << envVars, pageVars, formVars, backendVars, dashPc, approvalsError, events >>

\* fetchApprovals after its await, with an error: catch and finally
FetchApprovalsFailed(k) ==
  /\ k \in DOMAIN fetches
  /\ fetches[k].stage = "sent"
  /\ approvalsError' = "Failed to load projects"
  /\ approvalsLoading' = FALSE
  /\ fetches' = [fetches EXCEPT ![k].stage = "failed"]
  /\ lastOp' = Op("fetchApprovalsFailed", Empty)
  /\ UNCHANGED << envVars, pageVars, formVars, backendVars, dashPc, approvals, events >>

\* the realtime handler, called with the oldest event on its way
RealtimeDelivered ==
  /\ events # << >>
  /\ approvals' = ApplyEvent(approvals, Head(events))
  /\ events' = Tail(events)
  /\ lastOp' = Op("realtimeDelivered", << Head(events).eventType >>)
  /\ UNCHANGED << envVars, pageVars, formVars, backendVars, dashPc, approvalsLoading,
                  approvalsError, fetches >>

\* a delete request of the dashboard: "sent", "ok" once the backend has deleted
\* for it, "error" once the backend has refused it, "done" once its promise has
\* settled and the handler has finished
Delete(stage, target) == [stage |-> stage, target |-> target]

\* handleApprovalDelete up to its await, from the delete button of a listed entry:
\* without a backend an alert and nothing else
HandleApprovalDelete(target) ==
  /\ dashPc = "mounted"
  /\ \E i \in DOMAIN approvals : approvals[i].id = target
  /\ Len(deletes) < MaxDeletes
  /\ IF hasSupabaseEnv
     THEN deletes' = Append(deletes, Delete("sent", target)) /\ UNCHANGED dashAlerts
     ELSE deletes' = Append(deletes, Delete("done", target)) /\ dashAlerts' = dashAlerts + 1
  /\ lastOp' = Op("handleApprovalDelete", << target >>)
  /\ UNCHANGED << envVars, statusVars, projVars, authVars, formVars, backendVars, dashVars >>

\* the backend deletes the rows with the request's id and publishes their events
BackendDeletes(k) ==
  /\ k \in DOMAIN deletes
  /\ deletes[k].stage = "sent"
  /\ table' = SelectSeq(table, LAMBDA r : r.id # deletes[k].target)
  /\ LET gone == SelectSeq(table, LAMBDA r : r.id = deletes[k].target)
     IN events' = IF dashPc = "mounted" /\ hasSupabaseEnv
                  THEN events \o [i \in DOMAIN gone |-> Event("DELETE", gone[i])]
                  ELSE events
  /\ deletes' = [deletes EXCEPT ![k].stage = "ok"]
  /\ lastOp' = Op("backendDeletes", << deletes[k].target >>)
  /\ UNCHANGED << envVars, statusVars, projVars, authVars, formVars, storage, created, changes, dashPc, approvals,
                  approvalsLoading, approvalsError, fetches, dashAlerts >>

\* the backend refuses the delete
BackendRefusesDelete(k) ==
  /\ k \in DOMAIN deletes
  /\ deletes[k].stage = "sent"
  /\ deletes' = [deletes EXCEPT ![k].stage = "error"]
  /\ lastOp' = Op("backendRefusesDelete", << deletes[k].target >>)
  /\ UNCHANGED << envVars, statusVars, projVars, authVars, formVars, backendVars, dashVars, dashAlerts >>

\* a handler that empties the list once the backend has deleted
ApprovalDeleteResolvedClears(k) ==
  /\ k \in DOMAIN deletes
  /\ deletes[k].stage = "ok"
  /\ approvals' = << >>
  /\ deletes' = [deletes EXCEPT ![k].stage = "done"]
  /\ lastOp' = Op("approvalDeleteResolved", << deletes[k].target >>)
  /\ UNCHANGED << envVars, statusVars, projVars, authVars, formVars, backendVars, dashPc, approvalsLoading,
                  approvalsError, fetches, events, dashAlerts >>

\* handleApprovalDelete after its await, without error: the entries with the id
\* leave the list
ApprovalDeleteResolved(k) ==
  /\ k \in DOMAIN deletes
  /\ deletes[k].stage = "ok"
  /\ approvals' = SelectSeq(approvals, LAMBDA p : p.id # deletes[k].target)
  /\ deletes' = [deletes EXCEPT ![k].stage = "done"]
  /\ lastOp' = Op("approvalDeleteResolved", << deletes[k].target >>)
  /\ UNCHANGED << envVars, statusVars, projVars, authVars, formVars, backendVars, dashPc, approvalsLoading,
                  approvalsError, fetches, events, dashAlerts >>

\* handleApprovalDelete after its await, with an error: an alert and nothing else
ApprovalDeleteFailed(k) ==
  /\ k \in DOMAIN deletes
  /\ deletes[k].stage = "error"
  /\ dashAlerts' = dashAlerts + 1
  /\ deletes' = [deletes EXCEPT ![k].stage = "done"]
  /\ lastOp' = Op("approvalDeleteFailed", << deletes[k].target >>)
  /\ UNCHANGED << envVars, statusVars, projVars, authVars, formVars, backendVars, dashVars >>

\* the steps of the dashboard and of the clients that change the table meanwhile
DashAction ==
  \/ DashMount
  \/ RefreshApprovals
  \/ \E k \in DOMAIN fetches : BackendAnswers(k)
  \/ \E k \in DOMAIN fetches : FetchApprovalsResolved(k)
  \/ \E k \in DOMAIN fetches : FetchApprovalsFailed(k)
  \/ RealtimeDelivered
  \/ \E i \in DOMAIN approvals : HandleApprovalDelete(approvals[i].id)
  \/ \E k \in DOMAIN deletes : BackendDeletes(k)
  \/ \E k \in DOMAIN deletes : BackendRefusesDelete(k)
  \/ \E k \in DOMAIN deletes : ApprovalDeleteResolved(k)
  \/ \E k \in DOMAIN deletes : ApprovalDeleteFailed(k)
  \/ OtherInsert
  \/ \E i \in DOMAIN table : OtherDelete(i)
  \/ \E i \in DOMAIN table, status \in ApprovalStatuses : CrmDecides(i, status)

\* the dashboard with its approvals list
SpecDash == InitDash /\ [][DashAction]_vars

\* a dashboard over a table of one or two rows
InitDelete ==
  /\ id = "none"
  /\ hasSupabaseEnv \in BOOLEAN
  /\ villagesCSV = Empty
  /\ remote = NoQuery
  /\ table \in {<< Row(RowId(1), "pending", 0) >>,
                << Row(RowId(1), "approved", 0), Row(RowId(2), "pending", 0) >>}
  /\ created = Len(table)
  /\ Constructed

\* the steps of the dashboard around a delete, with a client that deletes meanwhile
DeleteAction ==
  \/ DashMount
  \/ \E k \in DOMAIN fetches : BackendAnswers(k)
  \/ \E k \in DOMAIN fetches : FetchApprovalsResolved(k)
  \/ RealtimeDelivered
  \/ \E i \in DOMAIN approvals : HandleApprovalDelete(approvals[i].id)
  \/ \E k \in DOMAIN deletes : BackendDeletes(k)
  \/ \E k \in DOMAIN deletes : BackendRefusesDelete(k)
  \/ \E k \in DOMAIN deletes : ApprovalDeleteResolved(k)
  \/ \E k \in DOMAIN deletes : ApprovalDeleteFailed(k)
  \/ \E i \in DOMAIN table : OtherDelete(i)

\* the dashboard with its delete button
SpecDelete == InitDelete /\ [][DeleteAction]_vars

\* lists and events the realtime handler is applied to: lists of up to two entries,
\* two entries of one id among them, and events of every type, one of a type the
\* handler does not know and one whose record carries only some of the fields
ListInputs ==
  LET entries == { Row(RowId(1), "pending", 0), Row(RowId(1), "approved", 1),
                   Row(RowId(2), "pending", 0) }
  IN UNION {[1..n -> entries] : n \in 0..2}

EventInputs ==
  { Event(type, row) :
      type \in {"INSERT", "UPDATE", "DELETE", "TRUNCATE"},
      row \in { Row(RowId(1), "rejected", 0), Row(RowId(3), "pending", 0),
                [id |-> RowId(2), approval_status |-> "approved"] } }

\* a mounted dashboard with any list and one event on its way
InitReducer ==
  /\ id = "none"
  /\ hasSupabaseEnv = TRUE
  /\ villagesCSV = Empty
  /\ remote = NoQuery
  /\ table = << >>
  /\ created = 0
  /\ \E list \in ListInputs, ev \in EventInputs :
       /\ approvals = list
       /\ events = << ev >>
  /\ dashPc = "mounted"
  /\ fetches = << >>
  /\ approvalsLoading = FALSE
  /\ approvalsError = "null"
  /\ FormConstructed
  /\ storage = 0
  /\ changes = 0
  /\ PageConstructed
  /\ lastOp = Op("none", Empty)

\* the realtime handler alone, on any list and event
SpecReducer == InitReducer /\ [][RealtimeDelivered]_vars

----------------------------------------------------------------------------
(* deriveProjectStatus over loosely typed records *)

\* values of a column besides text and null: absent, a number (its digits), a boolean
Undefined == [kind |-> "undefined", val |-> Empty]
Num(digits) == [kind |-> "number", val |-> digits]
Bool(b) == [kind |-> "boolean", val |-> IF b THEN << "t" >> ELSE << "f" >>]

\* project[key]
Get(project, key) == IF key \in DOMAIN project THEN project[key] ELSE Undefined

\* whether a value passes `if (value)`
Truthy(v) ==
  \/ v.kind = "string" /\ v.val # Empty
  \/ v.kind = "number" /\ v.val # << "0" >>
  \/ v.kind = "boolean" /\ v.val = << "t" >>

StatusAliases == << "status", "project_status", "current_status", "stage", "state" >>
CompleteFlags == << "is_completed", "completed", "isComplete" >>
ActiveFlags == << "is_active", "active", "isActive" >>

CompletedWords ==
  { << "c", "o", "m", "p", "l", "e", "t", "e", "d" >>,
    << "c", "o", "m", "p", "l", "e", "t", "e" >>,
    << "d", "o", "n", "e" >>,
    << "f", "i", "n", "i", "s", "h", "e", "d" >>,
    << "c", "l", "o", "s", "e", "d" >> }

ActiveWords ==
  { << "a", "c", "t", "i", "v", "e" >>,
    << "i", "n", SP, "p", "r", "o", "g", "r", "e", "s", "s" >>,
    << "i", "n", "-", "p", "r", "o", "g", "r", "e", "s", "s" >>,
    << "o", "n", "g", "o", "i", "n", "g" >>,
    << "p", "r", "o", "c", "e", "s", "s", "i", "n", "g" >>,
    << "r", "u", "n", "n", "i", "n", "g" >>,
    << "p", "e", "n", "d", "i", "n", "g" >>,
    << "i", "n", "i", "t", "i", "a", "t", "e", "d" >> }

\* pickFirstValue: the value of the first key that is not undefined, null or ""
RECURSIVE pickFirstValue(_, _)
pickFirstValue(project, keys) ==
  IF keys = << >> THEN Undefined
  ELSE LET value == Get(project, Head(keys))
       IN IF value.kind \notin {"undefined", "null"}
             /\ ~(value.kind = "string" /\ value.val = Empty)
          THEN value
          ELSE pickFirstValue(project, Tail(keys))

\* toBoolean: "true", "false" or "null"
toBoolean(value) ==
  IF value.kind = "boolean" THEN (IF value.val = << "t" >> THEN "true" ELSE "false")
  ELSE IF value.kind = "number" THEN (IF value.val # << "0" >> THEN "true" ELSE "false")
  ELSE IF value.kind = "string"
       THEN LET normalized == toLowerCase(trim(value.val))
            IN IF normalized \in {<< "t", "r", "u", "e" >>, << "y", "e", "s" >>, << "y" >>,
                                  << "1" >>}
               THEN "true"
               ELSE IF normalized \in {<< "f", "a", "l", "s", "e" >>, << "n", "o" >>,
                                       << "n" >>, << "0" >>}
                    THEN "false"
                    ELSE "null"
  ELSE "null"

\* the flags of deriveProjectStatus, consulted after the status text
DeriveFromFlags(project) ==
  IF toBoolean(pickFirstValue(project, CompleteFlags)) = "true" THEN "completed"
  ELSE IF toBoolean(pickFirstValue(project, ActiveFlags)) = "true" THEN "active"
  ELSE "other"

\* deriveProjectStatus: "completed", "active" or "other"; "throws" where
\* statusValue.trim is called on a value that is no string (a TypeError)
deriveProjectStatus(project) ==
  LET statusValue == pickFirstValue(project, StatusAliases)
  IN IF ~Truthy(statusValue) THEN DeriveFromFlags(project)
     ELSE IF statusValue.kind # "string" THEN "throws"
     ELSE LET normalized == toLowerCase(trim(statusValue.val))
          IN IF normalized \in CompletedWords THEN "completed"
             ELSE IF normalized \in ActiveWords THEN "active"
             ELSE DeriveFromFlags(project)

\* values of the status columns: null, empty, status words in other case and with
\* blanks, a text that is no status word, and numbers
StatusValues ==
  { Null, Str(Empty), Str(<< SP, "D", "o", "n", "e", SP >>),
    Str(<< "R", "U", "N", "N", "I", "N", "G" >>), Str(<< "x" >>),
    Num(<< "1" >>), Num(<< "0" >>) }

\* values of the flag columns
FlagValues ==
  { Null, Str(Empty), Str(<< SP, "Y", "e", "s", SP >>), Str(<< "n", "o" >>), Bool(TRUE),
    Num(<< "0" >>) }

\* the status columns of a record: at most two of the aliases are present
StatusParts ==
  {NoRecord}
  \cup {k :> v : k \in Range(StatusAliases), v \in StatusValues}
  \cup {(k[1] :> v[1]) @@ (k[2] :> v[2]) :
          k \in {kk \in Range(StatusAliases) \X Range(StatusAliases) : kk[1] # kk[2]},
          v \in StatusValues \X StatusValues}

\* the flag columns of a record: at most one completion flag, or an empty one
\* before a set one, and at most one active flag
FlagParts ==
  LET complete == {NoRecord}
                  \cup {k :> v : k \in {"is_completed", "isComplete"}, v \in FlagValues}
                  \cup {("is_completed" :> Str(Empty)) @@ ("completed" :> Bool(TRUE))}
      active == {NoRecord}
                \cup {"is_active" :> v :
                        v \in {Str(<< SP, "Y", "e", "s", SP >>), Str(<< "n", "o" >>), Bool(TRUE)}}
  IN {c @@ a : c \in complete, a \in active}

RecordInputs == {st @@ fl : st \in StatusParts, fl \in FlagParts}

\* the dashboard derives the status of a project record it shows
DeriveStatus(project) ==
  /\ record' = project
  /\ derived' = deriveProjectStatus(project)
  /\ lastOp' = Op("deriveStatus", Empty)
  /\ UNCHANGED << envVars, formVars, backendVars, dashVars, deleteVars, projVars, authVars >>

\* one record is rendered in a run
StatusAction == derived = "none" /\ \E project \in RecordInputs : DeriveStatus(project)

\* deriveProjectStatus alone, on the records of the inputs
SpecStatus == InitDash /\ [][StatusAction]_vars

----------------------------------------------------------------------------
(* The dashboard: the tabs, the chitoor_projects list and the selected project *)

\* String(raw)
StringOf(v) ==
  IF v.kind = "boolean" THEN (IF v.val = << "t" >> THEN << "t", "r", "u", "e" >>
                              ELSE << "f", "a", "l", "s", "e" >>)
  ELSE v.val

\* getProjectId: "" for a record without id, else the id as text
getProjectId(project) ==
  LET raw == Get(project, "id")
  IN IF raw.kind \in {"null", "undefined"} THEN Empty ELSE StringOf(raw)

\* ids of chitoor_projects records: none, a text, a number
IdValues == { Null, Str(<< "a" >>), Num(<< "7" >>) }

\* the lists a fetch of chitoor_projects may bring: up to two records
ProjectLists == UNION {[1..n -> {"id" :> v : v \in IdValues}] : n \in 0..2}

DashboardTabs == {"approvals", "projects", "analytics"}

\* a fetch of chitoor_projects: "sent" or "done"; whether the tab effect started
\* it, and the tab shown when it started
ProjectsFetch(stage, auto, tab) == [stage |-> stage, auto |-> auto, tab |-> tab]

\* every effect whose dependencies changed has run
EffectsFlushed == ~autoPending /\ ~selPending

\* fetchChittoorProjects up to its await
FetchChittoorProjectsStart(auto) ==
  /\ projectsLoading' = TRUE
  /\ projectsError' = "null"
  /\ projFetches' = Append(projFetches, ProjectsFetch("sent", auto, activeTab))

\* onValueChange of the tabs
SetActiveTab(t) ==
  /\ dashPc = "mounted"
  /\ EffectsFlushed
  /\ t # activeTab
  /\ Len(projFetches) < MaxFetches
  /\ activeTab' = t
  /\ autoPending' = TRUE
  /\ lastOp' = Op("setActiveTab", Empty)
  /\ UNCHANGED << envVars, formVars, backendVars, dashVars, deleteVars, statusVars, authVars, projects,
                  projectsLoading, projectsError, projectsFetched, selectedProjectId,
                  projFetches, selPending >>

\* the effect on [activeTab, fetchChittoorProjects, projectsFetched]
AutoFetchEffect ==
  /\ autoPending
  /\ autoPending' = FALSE
  /\ IF hasSupabaseEnv /\ ~projectsFetched /\ activeTab \in {"projects", "analytics"}
     THEN FetchChittoorProjectsStart(TRUE)
     ELSE UNCHANGED << projectsLoading, projectsError, projFetches >>
  /\ lastOp' = Op("autoFetchEffect", Empty)
  /\ UNCHANGED << envVars, formVars, backendVars, dashVars, deleteVars, statusVars, authVars, activeTab,
                  projects, projectsFetched, selectedProjectId, selPending >>

\* onClick of Refresh Projects, disabled without a backend
RefreshProjects ==
  /\ dashPc = "mounted"
  /\ EffectsFlushed
  /\ hasSupabaseEnv
  /\ Len(projFetches) < MaxFetches
  /\ FetchChittoorProjectsStart(FALSE)
  /\ lastOp' = Op("refreshProjects", Empty)
  /\ UNCHANGED << envVars, formVars, backendVars, dashVars, deleteVars, statusVars, authVars, activeTab,
                  projects, projectsFetched, selectedProjectId, autoPending, selPending >>

\* fetchChittoorProjects after its await, with rows: setProjects, then finally
FetchChittoorProjectsResolved(k, data) ==
  /\ EffectsFlushed
  /\ k \in DOMAIN projFetches
  /\ projFetches[k].stage = "sent"
  /\ projects' = data
  /\ projectsLoading' = FALSE
  /\ projectsFetched' = TRUE
  /\ projFetches' = [projFetches EXCEPT ![k].stage = "done"]
  /\ autoPending' = ~projectsFetched
  /\ selPending' = TRUE
  /\ lastOp' = Op("fetchChittoorProjectsResolved", Empty)
  /\ UNCHANGED << envVars, formVars, backendVars, dashVars, deleteVars, statusVars, authVars, activeTab,
                  projectsError, selectedProjectId >>

\* fetchChittoorProjects after its await, with an error: catch, then finally
FetchChittoorProjectsFailed(k) ==
  /\ EffectsFlushed
  /\ k \in DOMAIN projFetches
  /\ projFetches[k].stage = "sent"
  /\ projectsError' = "Failed to load Chittoor projects"
  /\ projectsLoading' = FALSE
  /\ projectsFetched' = TRUE
  /\ projFetches' = [projFetches EXCEPT ![k].stage = "done"]
  /\ autoPending' = ~projectsFetched
  /\ lastOp' = Op("fetchChittoorProjectsFailed", Empty)
  /\ UNCHANGED << envVars, formVars, backendVars, dashVars, deleteVars, statusVars, authVars, activeTab,
                  projects, selectedProjectId, selPending >>

\* a selection effect that falls back only while nothing is selected
SelectionKeepsStale(list, selected) ==
  IF Len(list) = 0 THEN Null
  ELSE IF ~Truthy(selected) THEN Str(getProjectId(list[1]))
  ELSE selected

\* what the effect on [projects, selectedProjectId] leaves selected
Selection(list, selected) ==
  IF Len(list) = 0 THEN Null
  ELSE IF \/ ~Truthy(selected)
          \/ ~\E i \in DOMAIN list : Str(getProjectId(list[i])) = selected
       THEN Str(getProjectId(list[1]))
       ELSE selected

\* the effect on [projects, selectedProjectId]; it runs again when it has
\* changed the selection
SelectionEffect ==
  /\ selPending
  /\ selectedProjectId' = Selection(projects, selectedProjectId)
  /\ selPending' = (selectedProjectId' # selectedProjectId)
  /\ lastOp' = Op("selectionEffect", Empty)
  /\ UNCHANGED << envVars, formVars, backendVars, dashVars, deleteVars, statusVars, authVars, activeTab,
                  projects, projectsLoading, projectsError, projectsFetched, projFetches,
                  autoPending >>

\* onSelect of a project of the projects tab
SelectProject(i) ==
  /\ dashPc = "mounted"
  /\ EffectsFlushed
  /\ activeTab = "projects"
  /\ i \in DOMAIN projects
  /\ selectedProjectId' = Str(getProjectId(projects[i]))
  /\ selPending' = (selectedProjectId' # selectedProjectId)
  /\ lastOp' = Op("selectProject", Empty)
  /\ UNCHANGED << envVars, formVars, backendVars, dashVars, deleteVars, statusVars, authVars, activeTab,
                  projects, projectsLoading, projectsError, projectsFetched, projFetches,
                  autoPending >>

\* the steps of the dashboard around its tabs and its chitoor_projects list
ProjectsAction ==
  \/ DashMount
  \/ \E t \in DashboardTabs : SetActiveTab(t)
  \/ AutoFetchEffect
  \/ RefreshProjects
  \/ \E k \in DOMAIN projFetches, data \in ProjectLists : FetchChittoorProjectsResolved(k, data)
  \/ \E k \in DOMAIN projFetches : FetchChittoorProjectsFailed(k)
  \/ SelectionEffect
  \/ \E i \in DOMAIN projects : SelectProject(i)

\* the dashboard with its tabs and its projects
SpecProjects == InitDash /\ [][ProjectsAction]_vars

----------------------------------------------------------------------------
(* The router with its auth guard, the auth context and the login page *)

\* the routes inside RequireAuth
GuardedPaths == {"/", "/projects/new", "/projects/p1", "/projects/p1/edit"}

\* the pathnames a browser may open the app at
Paths == GuardedPaths \cup {"/login"}

\* a RequireAuth that does not wait for the auth context
ShownWithoutLoading ==
  IF appPc # "mounted" THEN "nothing"
  ELSE IF path = "/login" THEN "login"
  ELSE IF user = "null" THEN "navigate"
  ELSE "page"

\* what the route of the current location renders: the login page, and inside
\* RequireAuth the loading text, the Navigate element or the guarded page
Shown ==
  IF appPc # "mounted" THEN "nothing"
  ELSE IF path = "/login" THEN "login"
  ELSE IF authLoading THEN "loading"
  ELSE IF user = "null" THEN "navigate"
  ELSE "page"

\* the rest of the program, which the router and the auth context leave alone
appVars == << envVars, formVars, backendVars, dashVars, deleteVars, statusVars, projVars >>

\* the browser opens the app at a pathname; the provider's effect calls getSession
\* and subscribes, and the auth backend tells the subscriber its initial session
AppMount(p, stored) ==
  /\ appPc = "constructed"
  /\ appPc' = "mounted"
  /\ path' = p
  /\ session' = stored
  /\ sessionPc' = "sent"
  /\ notifyPending' = TRUE
  /\ lastOp' = Op("appMount", Empty)
  /\ UNCHANGED << appVars, fromState, user, authLoading, signInPc, loginError >>

\* init of the provider after its await: setUser, setLoading(false)
GetSessionResolved ==
  /\ Shown # "navigate"
  /\ sessionPc = "sent"
  /\ user' = session
  /\ authLoading' = FALSE
  /\ sessionPc' = "done"
  /\ lastOp' = Op("getSessionResolved", Empty)
  /\ UNCHANGED << appVars, appPc, path, fromState, session, notifyPending, signInPc,
                  loginError >>

\* the callback of onAuthStateChange: setUser
AuthStateChanged ==
  /\ Shown # "navigate"
  /\ notifyPending
  /\ user' = session
  /\ notifyPending' = FALSE
  /\ lastOp' = Op("authStateChanged", Empty)
  /\ UNCHANGED << appVars, appPc, path, fromState, authLoading, session, sessionPc,
                  signInPc, loginError >>

\* the Navigate element of RequireAuth: to /login, with the location as state.from
RedirectToLogin ==
  /\ Shown = "navigate"
  /\ path' = "/login"
  /\ fromState' = path
  /\ lastOp' = Op("redirectToLogin", Empty)
  /\ UNCHANGED << appVars, appPc, user, authLoading, session, sessionPc, notifyPending,
                  signInPc, loginError >>

\* a link of the layout: the logo for everyone, Dashboard and New Project for a
\* user, Login otherwise; the links of the dashboard lead on to a project
FollowLink(p) ==
  /\ Shown \in {"login", "loading", "page"}
  /\ signInPc = "idle"
  /\ p # path
  /\ IF user = "null" THEN p \in {"/", "/login"}
     ELSE \/ p \in {"/", "/projects/new"}
          \/ Shown = "page" /\ p \in GuardedPaths
  /\ path' = p
  /\ fromState' = "none"
  /\ lastOp' = Op("followLink", Empty)
  /\ UNCHANGED << appVars, appPc, user, authLoading, session, sessionPc, notifyPending,
                  signInPc, loginError >>

\* handleSubmit of the login page up to its await
LoginSubmit ==
  /\ Shown = "login"
  /\ signInPc = "idle"
  /\ signInPc' = "sent"
  /\ loginError' = "null"
  /\ lastOp' = Op("loginSubmit", Empty)
  /\ UNCHANGED << appVars, appPc, path, fromState, user, authLoading, session, sessionPc,
                  notifyPending >>

\* the auth backend accepts the password or refuses it
SignInAnswered(ok) ==
  /\ signInPc = "sent"
  /\ IF ok
     THEN session' = "u1" /\ notifyPending' = TRUE /\ signInPc' = "ok"
     ELSE UNCHANGED << session, notifyPending >> /\ signInPc' = "error"
  /\ lastOp' = Op("signInAnswered", Empty)
  /\ UNCHANGED << appVars, appPc, path, fromState, user, authLoading, sessionPc,
                  loginError >>

\* handleSubmit after its await: the error is shown, or navigate with replace to
\* location.state?.from?.pathname || "/"
SignInResolved ==
  /\ Shown = "login"
  /\ signInPc \in {"ok", "error"}
  /\ IF signInPc = "error"
     THEN loginError' = "Invalid login credentials" /\ UNCHANGED << path, fromState >>
     ELSE /\ path' = IF fromState # "none" THEN fromState ELSE "/"
          /\ fromState' = "none"
          /\ UNCHANGED loginError
  /\ signInPc' = "idle"
  /\ lastOp' = Op("signInResolved", << signInPc >>)
  /\ UNCHANGED << appVars, appPc, user, authLoading, session, sessionPc, notifyPending >>

\* Logout of the layout: the auth backend drops the session
SignOut ==
  /\ Shown \in {"login", "loading", "page"}
  /\ user # "null"
  /\ session # "null"
  /\ signInPc = "idle"
  /\ session' = "null"
  /\ notifyPending' = TRUE
  /\ lastOp' = Op("signOut", Empty)
  /\ UNCHANGED << appVars, appPc, path, fromState, user, authLoading, sessionPc, signInPc,
                  loginError >>

\* the steps of the router, the auth context and the login page
AuthAction ==
  \/ \E p \in Paths, stored \in {"null", "u1"} : AppMount(p, stored)
  \/ GetSessionResolved
  \/ AuthStateChanged
  \/ RedirectToLogin
  \/ \E p \in Paths : FollowLink(p)
  \/ LoginSubmit
  \/ \E ok \in BOOLEAN : SignInAnswered(ok)
  \/ SignInResolved
  \/ SignOut

\* the app from the opening of a pathname on
SpecAuth == InitDash /\ [][AuthAction]_vars

----------------------------------------------------------------------------
(* onSubmit *)

isEdit == id # "none"

\* the payload of onSubmit: the validated form values, some of them normalised
PayloadColumns == SchemaColumns

\* onChange of the file input; a submission under way keeps the files it was
\* started with, so a choice made meanwhile counts from its end on
ChooseImages(n) ==
  /\ mountPc = "mounted"
  /\ ~navigated
  /\ submitPc = "idle"
  /\ imageFiles # n
  /\ imageFiles' = n
  /\ lastOp' = Op("chooseImages", Empty)
  /\ UNCHANGED << envVars, pageVars, mountPc, existingImages, loadVars, mapVars, fieldVars,
                  widgetVars, submitPc, targetId, uploaded, submits, lastWrite, alerts,
                  navigated, backendVars, dashVars >>

\* an onSubmit whose update carries the status of a new record
SubmitWritesStatus ==
  /\ mountPc = "mounted"
  /\ ~loading
  /\ ~navigated
  /\ submitPc = "idle"
  /\ submits < MaxSubmits
  /\ submits' = submits + 1
  /\ IF ~hasSupabaseEnv
     THEN /\ alerts' = alerts + 1
          /\ UNCHANGED << loading, submitPc, lastWrite >>
     ELSE /\ loading' = TRUE
          /\ lastWrite' =
               Request(IF isEdit THEN "update" ELSE "insert", id,
                       PayloadColumns \cup {"approval_status"}, "pending", 0)
          /\ submitPc' = "write"
          /\ UNCHANGED alerts
  /\ lastOp' = Op("submit", Empty)
  /\ UNCHANGED << envVars, pageVars, mountPc, existingImages, loadPc, loadError, mapVars,
                  fieldVars, widgetVars, imageFiles, targetId, uploaded, navigated,
                  backendVars, dashVars >>

\* onSubmit with valid form values, up to its first await: the update of the
\* record under edit, or the insert of a new record as pending
Submit ==
  /\ mountPc = "mounted"
  /\ ~loading
  /\ ~navigated
  /\ submitPc = "idle"
  /\ submits < MaxSubmits
  /\ submits' = submits + 1
  /\ IF ~hasSupabaseEnv
     THEN /\ alerts' = alerts + 1
          /\ UNCHANGED << loading, submitPc, lastWrite >>
     ELSE /\ loading' = TRUE
          /\ lastWrite' =
               IF isEdit
               THEN Request("update", id, PayloadColumns, "absent", 0)
               ELSE Request("insert", "none", PayloadColumns \cup {"approval_status"},
                            "pending", 0)
          /\ submitPc' = "write"
          /\ UNCHANGED alerts
  /\ lastOp' = Op("submit", Empty)
  /\ UNCHANGED << envVars, pageVars, mountPc, existingImages, loadPc, loadError, mapVars,
                  fieldVars, widgetVars, imageFiles, targetId, uploaded, navigated,
                  backendVars, dashVars >>

\* catch and finally of onSubmit: alert(e.message || "Save failed"), setLoading(false)
Throw ==
  /\ alerts' = alerts + 1
  /\ loading' = FALSE
  /\ submitPc' = "idle"

\* the end of onSubmit without error: navigate("/"), setLoading(false)
Finish ==
  /\ navigated' = TRUE
  /\ loading' = FALSE
  /\ submitPc' = "idle"

\* onSubmit after the await of its update or insert
WriteResolved(ok) ==
  /\ submitPc = "write"
  /\ IF ~ok
     THEN /\ Throw
          /\ UNCHANGED << table, created, targetId, uploaded, navigated >>
     ELSE /\ IF isEdit
             THEN /\ table' = UpdateRows(table, lastWrite)
                  /\ targetId' = id
                  /\ UNCHANGED created
             ELSE /\ table' = Append(table, InsertedRow(lastWrite, created + 1))
                  /\ created' = created + 1
                  /\ targetId' = RowId(created + 1)
          /\ IF imageFiles > 0
             THEN /\ submitPc' = "upload"
                  /\ uploaded' = 0
                  /\ UNCHANGED << loading, alerts, navigated >>
             ELSE /\ Finish
                  /\ UNCHANGED << alerts, uploaded >>
  /\ lastOp' = Op("writeResolved", Empty)
  /\ UNCHANGED << envVars, pageVars, mountPc, existingImages, loadPc, loadError, mapVars,
                  fieldVars, widgetVars, imageFiles, submits, lastWrite, storage,
                  changes, dashVars >>

\* onSubmit after the await of the upload of one file: after the last file the
\* update of the images column is sent
UploadResolved(ok) ==
  /\ submitPc = "upload"
  /\ IF ~ok
     THEN /\ Throw
          /\ UNCHANGED << storage, uploaded, lastWrite >>
     ELSE /\ storage' = storage + 1
          /\ uploaded' = uploaded + 1
          /\ IF uploaded' = imageFiles
             THEN /\ lastWrite' = Request("update", targetId, {"images"}, "absent",
                                          existingImages + uploaded')
                  /\ submitPc' = "images"
             ELSE UNCHANGED << lastWrite, submitPc >>
          /\ UNCHANGED << loading, alerts >>
  /\ lastOp' = Op("uploadResolved", Empty)
  /\ UNCHANGED << envVars, pageVars, mountPc, existingImages, loadPc, loadError, mapVars,
                  fieldVars, widgetVars, imageFiles, targetId, submits, navigated, table,
                  created, changes, dashVars >>

\* onSubmit after the await of the update of the images column
ImagesUpdateResolved(ok) ==
  /\ submitPc = "images"
  /\ IF ~ok
     THEN /\ Throw
          /\ UNCHANGED << table, navigated >>
     ELSE /\ table' = UpdateRows(table, lastWrite)
          /\ Finish
          /\ UNCHANGED alerts
  /\ lastOp' = Op("imagesUpdateResolved", Empty)
  /\ UNCHANGED << envVars, pageVars, mountPc, existingImages, loadPc, loadError, mapVars,
                  fieldVars, widgetVars, imageFiles, targetId, uploaded, submits,
                  lastWrite, storage, created, changes, dashVars >>

\* the steps of a submission and of what precedes it
SubmitAction ==
  \/ LoadEffect
  \/ MappingEffect
  \/ FetchRejected
  \/ \E p \in {r \in LoadedRecords : r.images > 0} : LoadResolved(p)
  \/ \E msg \in LoadErrorMessages \ {""} : LoadFailed(msg)
  \/ \E n \in 0..MaxImages : ChooseImages(n)
  \/ Submit
  \/ \E ok \in BOOLEAN : WriteResolved(ok)
  \/ \E ok \in BOOLEAN : UploadResolved(ok)
  \/ \E ok \in BOOLEAN : ImagesUpdateResolved(ok)
  \/ \E i \in DOMAIN table, status \in ApprovalStatuses : CrmDecides(i, status)

\* the form from mount to the end of its submissions
SpecSubmit == InitSubmit /\ [][SubmitAction]_vars

----------------------------------------------------------------------------
(* The form as a whole *)

SystemAction ==
  \/ LoadEffect
  \/ MappingEffect
  \/ FetchResolved
  \/ FetchRejected
  \/ \E p \in LoadedRecords : LoadResolved(p)
  \/ \E msg \in LoadErrorMessages : LoadFailed(msg)

\* the steps that build the mapping
MappingAction ==
  \/ LoadEffect
  \/ MappingEffect
  \/ FetchResolved
  \/ FetchRejected

\* the steps a user takes
UserAction ==
  \/ \E t \in MandalFilterTexts : TypeMandalFilter(t)
  \/ \E m \in MandalOptions : SelectMandal(m)
  \/ \E t \in VillageFilterTexts : TypeVillageFilter(t)
  \/ \E v \in VillageOptions : SelectVillage(v)
  \/ \E t \in TypedTexts : TypeManualVillage(t)
  \/ \E t \in TypedTexts : TypeManualMandal(t)
  \/ CancelManual
  \/ \E t \in TypedTexts : TypeVillagePlain(t)
  \/ BlurVillagePlain
  \/ \E t \in TypedTexts : TypeMandalPlain(t)

Next == SystemAction \/ UserAction

\* the form with its widgets, on a few blobs and fetch outcomes
Spec == Init /\ [][Next]_vars

\* the construction of the mapping for a new project, on every blob and fetch
\* outcome of the bounds
SpecMapping == InitMapping /\ [][MappingAction]_vars

\* the steps a user takes at the two selects and their filters
OptionsAction ==
  \/ \E t \in MandalFilterInputs : TypeMandalFilter(t)
  \/ \E m \in MandalOptions : SelectMandal(m)
  \/ \E t \in VillageFilterInputs : TypeVillageFilter(t)
  \/ \E v \in VillageOptions : SelectVillage(v)

\* the two selects and their filters, on more filter texts
SpecOptions == InitOptions /\ [][MappingAction \/ OptionsAction]_vars

\* the mount of a form without backend
ParseAction == LoadEffect \/ MappingEffect

\* the parse of the bundled blob alone
SpecParse == InitParse /\ [][ParseAction]_vars

----------------------------------------------------------------------------
(* Vocabulary of the properties *)

\* the lower-cased village of a row
KeyOf(r) == toLowerCase(r.village)

KeysOf(rows) == {KeyOf(rows[i]) : i \in DOMAIN rows}

\* the last row of a sequence with a given key
LastWith(rows, k) ==
  rows[CHOOSE i \in DOMAIN rows :
         /\ KeyOf(rows[i]) = k
         /\ \A j \in DOMAIN rows : KeyOf(rows[j]) = k => j <= i]

\* the first row of a sequence with a given key
FirstWith(rows, k) ==
  rows[CHOOSE i \in DOMAIN rows :
         /\ KeyOf(rows[i]) = k
         /\ \A j \in DOMAIN rows : KeyOf(rows[j]) = k => i <= j]

\* the position at which a key first occurs in a sequence of rows
FirstIndex(rows, k) ==
  CHOOSE i \in DOMAIN rows :
    /\ KeyOf(rows[i]) = k
    /\ \A j \in DOMAIN rows : KeyOf(rows[j]) = k => i <= j

\* map holds exactly one record per key of rows, in the order the keys first occur
OneRecordPerKey(map, rows) ==
  /\ KeysOf(map) = KeysOf(rows)
  /\ Len(map) = Cardinality(KeysOf(rows))
  /\ \A i, j \in DOMAIN map :
       i < j => FirstIndex(rows, KeyOf(map[i])) < FirstIndex(rows, KeyOf(map[j]))

\* map is rows deduplicated by lower-cased village, the last row of a key kept
IsDedupLastWins(map, rows) ==
  /\ OneRecordPerKey(map, rows)
  /\ \A i \in DOMAIN map : map[i] = LastWith(rows, KeyOf(map[i]))

\* map is rows deduplicated by lower-cased village, the first row of a key kept
IsDedupFirstWins(map, rows) ==
  /\ OneRecordPerKey(map, rows)
  /\ \A i \in DOMAIN map : map[i] = FirstWith(rows, KeyOf(map[i]))

\* the rows of the remote table as the effect reads them: both columns as trimmed text
RemoteRowsRead == [i \in DOMAIN remote.data |->
                     [village |-> CellText(remote.data[i].village),
                      mandal |-> CellText(remote.data[i].mandal)]]

\* the remote query has ended and it delivered an array of rows without error
FetchSucceeded ==
  /\ hasSupabaseEnv
  /\ mapPc = "done"
  /\ remote.kind = "resolve" /\ ~remote.error /\ remote.isArray

\* the remote query has ended in an error, in data that is no array, or by throwing
FetchFailed ==
  /\ hasSupabaseEnv
  /\ mapPc = "done"
  /\ remote.kind = "reject" \/ remote.error \/ ~remote.isArray

\* some row the remote query delivered lacks a village or a mandal
SomeRemoteRowMalformed ==
  \E i \in DOMAIN RemoteRowsRead :
    RemoteRowsRead[i].village = Empty \/ RemoteRowsRead[i].mandal = Empty

----------------------------------------------------------------------------
(* Properties of the mapping *)

\* C1: when the remote source is configured and its query succeeded, the mapping
\* holds one record per lower-cased village of the local and the remote rows, local
\* keys before the keys only the remote has; the record of a key the remote has is
\* the remote row (remote wins), the record of a key only the blob has is a local row
C1_RemoteWinsOnMerge ==
  FetchSucceeded =>
    /\ OneRecordPerKey(mapping, local \o RemoteRowsRead)
    /\ \A i \in DOMAIN mapping :
         IF KeyOf(mapping[i]) \in KeysOf(RemoteRowsRead)
         THEN mapping[i] = LastWith(RemoteRowsRead, KeyOf(mapping[i]))
         ELSE mapping[i] = LastWith(local, KeyOf(mapping[i]))

\* a merge in which a village of both sources got the mandal of the remote row,
\* next to a village only the blob has
C1_Witness ==
  /\ FetchSucceeded
  /\ \E i \in DOMAIN local, j \in DOMAIN RemoteRowsRead, k \in DOMAIN mapping :
       /\ KeyOf(local[i]) = KeyOf(RemoteRowsRead[j])
       /\ KeyOf(mapping[k]) = KeyOf(local[i])
       /\ mapping[k].mandal = RemoteRowsRead[j].mandal
       /\ mapping[k].mandal # local[i].mandal
  /\ \E i \in DOMAIN local : KeyOf(local[i]) \notin KeysOf(RemoteRowsRead)

\* C2: the mapping never holds two records whose villages are equal ignoring case
C2_OneRecordPerVillage ==
  \A i, j \in DOMAIN mapping :
    toLowerCase(mapping[i].village) = toLowerCase(mapping[j].village) => i = j

\* a mapping built from rows that spell one village in two ways
C2_Witness ==
  /\ mapPc = "done"
  /\ mapping # << >>
  /\ \E i, j \in DOMAIN local :
       /\ local[i].village # local[j].village
       /\ toLowerCase(local[i].village) = toLowerCase(local[j].village)

\* C3: every record of the mapping has a non-empty village and a non-empty mandal
\* after trimming
C3_RecordsNonEmpty ==
  \A i \in DOMAIN mapping :
    trim(mapping[i].village) # Empty /\ trim(mapping[i].mandal) # Empty

\* C4 as stated: without a remote source the mapping is the local rows deduplicated
\* by lower-cased village, the first row of a village kept
C4_FirstOccurrenceWins ==
  (~hasSupabaseEnv /\ mapPc = "done") => IsDedupFirstWins(mapping, local)

\* C4, amended: without a remote source the mapping is the local rows deduplicated
\* by lower-cased village, the last row of a village kept, at the place of the first
C4_LastOccurrenceWins ==
  (~hasSupabaseEnv /\ mapPc = "done") => IsDedupLastWins(mapping, local)

\* a local-only mapping built from two rows of one village with different mandals
C4_Witness ==
  /\ ~hasSupabaseEnv
  /\ mapPc = "done"
  /\ \E i, j \in DOMAIN local :
       /\ i < j
       /\ KeyOf(local[i]) = KeyOf(local[j])
       /\ local[i].mandal # local[j].mandal
       /\ \E k \in DOMAIN mapping : mapping[k] = local[j]

\* C5: once the remote query has failed the mapping is the local rows deduplicated
\* by lower-cased village, and the step that ends the query leaves the load error
\* as it was
C5_FetchFailureDegrades ==
  /\ [](FetchFailed => IsDedupLastWins(mapping, local))
  /\ [][(mapPc = "pending" /\ mapPc' = "done") => loadError' = loadError]_vars

\* a failed query after which the deduplicated local rows are the mapping, no
\* load error shown
C5_Witness ==
  /\ FetchFailed
  /\ loadError = "null"
  /\ Len(mapping) > 0
  /\ Len(mapping) < Len(local)

\* C6: when the remote query delivers a row without village or mandal, the mapping
\* is the deduplicated local rows and holds nothing of the remote result
C6_MalformedFallsBack ==
  (FetchSucceeded /\ SomeRemoteRowMalformed) => IsDedupLastWins(mapping, local)

\* C7 as stated: while the remote query is pending the mapping is the deduplicated
\* local rows
C7_LocalWhilePending ==
  (hasSupabaseEnv /\ mapPc = "pending") => IsDedupLastWins(mapping, local)

\* C7, amended: while the remote query is pending the mapping is empty and the form
\* shows its plain village and mandal inputs; the mapping holds the merged result
\* (the deduplicated local rows after a failure) once the query has ended
C7_EmptyWhilePending ==
  /\ (hasSupabaseEnv /\ mapPc # "done") => (mapping = << >> /\ ~ShowSelects)
  /\ FetchSucceeded =>
       /\ OneRecordPerKey(mapping, local \o RemoteRowsRead)
       /\ \A i \in DOMAIN mapping :
            mapping[i] = LastWith(local \o RemoteRowsRead, KeyOf(mapping[i]))
  /\ FetchFailed => IsDedupLastWins(mapping, local)

\* the user typed a village into the plain input while the query was pending and
\* the blob had rows
C7_Witness ==
  /\ hasSupabaseEnv
  /\ mapPc = "pending"
  /\ local # << >>
  /\ lastOp.op = "typeVillagePlain"
  /\ village # Empty

\* C8: the remote query is issued at most once and the mapping is assigned at most
\* once, exactly once when the effect has ended; after the assignment, and in every
\* step that is not a step of the effect, the mapping stays as it is
C8_MappingBuiltOnce ==
  /\ [](/\ fetchCount <= 1
        /\ assignCount <= 1
        /\ (mapPc = "done" <=> assignCount = 1)
        /\ (~hasSupabaseEnv => fetchCount = 0))
  /\ [][assignCount = 1 => (mapping' = mapping /\ assignCount' = 1)]_vars
  /\ [][mapPc' = mapPc => mapping' = mapping]_vars

\* the user chose a village after the one query had ended and the mapping was set
C8_Witness ==
  /\ fetchCount = 1
  /\ assignCount = 1
  /\ mapping # << >>
  /\ lastOp.op = "selectVillage"
  /\ village # Empty

----------------------------------------------------------------------------
(* Properties of the selects *)

\* C9: choosing a mandal in the mandal select sets the form's mandal to it and
\* empties the form's village and the village filter
C9_SelectMandalResetsVillage ==
  (lastOp.op = "selectMandal" /\ lastOp.arg # OtherOption) =>
    /\ mandal = lastOp.arg
    /\ village = Empty
    /\ villageFilter = Empty

\* a mandal of the mapping was just chosen
C9_Witness ==
  /\ lastOp.op = "selectMandal"
  /\ lastOp.arg \notin {Empty, OtherOption}
  /\ \E i \in DOMAIN mapping : mapping[i].mandal = lastOp.arg
  /\ mandal = lastOp.arg

\* C10: choosing a village v in the village select sets the form's village to v and
\* the form's mandal to the mandal of the record whose village is exactly v, and to
\* the empty text when there is no such record
C10_SelectVillageFillsMandal ==
  (lastOp.op = "selectVillage" /\ lastOp.arg # OtherOption) =>
    /\ village = lastOp.arg
    /\ LET hits == {i \in DOMAIN mapping : mapping[i].village = lastOp.arg}
       IN IF hits = {} THEN mandal = Empty
          ELSE \A i \in hits : mandal = mapping[i].mandal

\* a village was just chosen with the village filter alone, and its mandal filled in
C10_Witness ==
  /\ lastOp.op = "selectVillage"
  /\ lastOp.arg \notin {Empty, OtherOption}
  /\ village = lastOp.arg
  /\ mandal # Empty
  /\ villageFilter # Empty

\* C11 as stated: once a village is held, a change of the mandal field leaves the
\* form's village as it was
C11_MandalChangeKeepsVillage ==
  [][(village # Empty
      /\ lastOp'.op \in {"selectMandal", "typeManualMandal", "typeMandalPlain"})
     => village' = village]_vars

\* C11, amended: once a village is held, choosing a mandal in the mandal select
\* empties the form's village; the village stays as it was only when the mandal is
\* changed by the 'Other' option or by typing it, and no change of the mandal ever
\* puts another village in its place
C11_MandalSelectClearsVillage ==
  [][(village # Empty
      /\ lastOp'.op \in {"selectMandal", "typeManualMandal", "typeMandalPlain"})
     => village' = IF lastOp'.op = "selectMandal" /\ lastOp'.arg # OtherOption
                   THEN Empty
                   ELSE village]_vars

\* the 'Other' option of the mandal select was just chosen and the village chosen
\* before is still held
C11_Witness ==
  /\ lastOp.op = "selectMandal"
  /\ lastOp.arg = OtherOption
  /\ village # Empty
  /\ \E i \in DOMAIN mapping : mapping[i].village = village
  /\ manualVillage = Empty

\* C12: right after manual mode is switched on by the 'Other' option of either
\* select, the form's village and mandal are both empty
C12_ManualModeClearsBoth ==
  (lastOp.op \in {"selectMandal", "selectVillage"} /\ lastOp.arg = OtherOption) =>
    /\ manualMode
    /\ village = Empty
    /\ mandal = Empty

\* C13: Cancel switches manual mode off and empties both manual texts, and leaves
\* the form's village and mandal as they were: nothing chosen before is put back
C13_CancelClearsManualTexts ==
  [][lastOp'.op = "cancelManual" =>
       /\ manualMode /\ ~manualMode'
       /\ manualVillage' = Empty
       /\ manualMandal' = Empty
       /\ village' = village
       /\ mandal' = mandal]_vars

\* manual mode was just cancelled after a village had been typed in it
C13_Witness ==
  /\ lastOp.op = "cancelManual"
  /\ ~manualMode
  /\ manualVillage = Empty
  /\ village \in TypedTexts \ {Empty}

\* C18: the plain inputs are shown only while the mapping is empty; typing in one
\* stores the typed text and leaves the other field alone, and a blur of the village
\* input changes neither field
C18_PlainInputsFreeText ==
  [][/\ lastOp'.op \in {"typeVillagePlain", "typeMandalPlain", "blurVillagePlain"}
          => mapping = << >>
     /\ lastOp'.op = "typeVillagePlain" => (village' = lastOp'.arg /\ mandal' = mandal)
     /\ lastOp'.op = "typeMandalPlain" => (mandal' = lastOp'.arg /\ village' = village)
     /\ lastOp'.op = "blurVillagePlain" => (mandal' = mandal /\ village' = village)]_vars

\* the village input was just left with a village and a mandal typed in
C18_Witness ==
  /\ lastOp.op = "blurVillagePlain"
  /\ mapping = << >>
  /\ village # Empty
  /\ mandal # Empty

\* the rows a line is expected to give: the texts on both sides of its last comma
ExpectedPair(line) ==
  LET commas == {i \in DOMAIN line : line[i] = COMMA}
      blank == \A i \in DOMAIN line : IsSpace(line[i])
      low == toLowerCase(trim(line))
      header == \E a, b \in 0..Len(line) :
                  low = << "v", "i", "l", "l", "a", "g", "e" >> \o [i \in 1..a |-> SP]
                        \o << COMMA >> \o [i \in 1..b |-> SP]
                        \o << "m", "a", "n", "d", "a", "l" >>
  IN IF blank \/ header \/ commas = {} THEN << >>
     ELSE LET last == CHOOSE i \in commas : \A j \in commas : j <= i
              before == trim(SubSeq(line, 1, last - 1))
              after == trim(SubSeq(line, last + 1, Len(line)))
          IN IF before = Empty \/ after = Empty THEN << >>
             ELSE << [village |-> before, mandal |-> after] >>

\* the rows expected of the lines of a blob from position s on, in line order
RECURSIVE ExpectedRows(_, _)
ExpectedRows(csv, s) ==
  LET e == CHOOSE e \in s..(Len(csv) + 1) :
             /\ e = Len(csv) + 1 \/ csv[e] = LF
             /\ \A k \in s..(e - 1) : csv[k] # LF
      rows == ExpectedPair(SubSeq(csv, s, e - 1))
  IN IF e = Len(csv) + 1 THEN rows ELSE rows \o ExpectedRows(csv, e + 1)

\* C16: the parsed rows are, line by line and in line order, the trimmed texts
\* before and after the last comma of every line that is neither blank nor the
\* header and has a comma with text on both sides
C16_ParseSplitsAtLastComma ==
  mountPc = "mounted" => local = ExpectedRows(villagesCSV, 1)

\* a blob whose first line has two commas and whose second has none was parsed
C16_Witness ==
  /\ mountPc = "mounted"
  /\ villagesCSV = JoinLines(<< << "a", COMMA, SP, "b", COMMA, "y", "m", CR >>,
                                << "k", "a", "d" >> >>)
  /\ local = << [village |-> << "a", COMMA, SP, "b" >>, mandal |-> << "y", "m" >>] >>

\* C17: no parsed row, and so no record the blob gives the mapping, has the village
\* 'village' and the mandal 'mandal' in any letter case
C17_HeaderNeverARecord ==
  \A rows \in {local, mapping} : \A i \in DOMAIN rows :
    ~(/\ toLowerCase(rows[i].village) = << "v", "i", "l", "l", "a", "g", "e" >>
      /\ toLowerCase(rows[i].mandal) = << "m", "a", "n", "d", "a", "l" >>)

\* a blob with the header in another letter case on its second line was parsed
C17_Witness ==
  /\ mountPc = "mounted"
  /\ villagesCSV =
       JoinLines(<< << "k", "a", "d", COMMA, "x", "m" >>,
                    << "v", "I", "L", "L", "A", "G", "E", SP, COMMA, "m", "a", "n", "d", "a", "l" >> >>)
  /\ mapping = << [village |-> << "k", "a", "d" >>, mandal |-> << "x", "m" >>] >>

\* s holds q somewhere, letter case aside
HoldsText(s, q) ==
  \E i \in 1..(Len(s) - Len(q) + 1) :
    toLowerCase(SubSeq(s, i, i + Len(q) - 1)) = toLowerCase(q)

\* the villages the village select may offer: those of the records of the selected
\* mandal, or of all records when no mandal is selected
CandidateVillages ==
  LET recs == IF trim(mandal) # Empty
              THEN {i \in DOMAIN mapping : mapping[i].mandal = trim(mandal)}
              ELSE DOMAIN mapping
  IN {mapping[i].village : i \in recs} \ {Empty}

\* C14: the village option list holds, once each, the candidate villages that hold
\* the trimmed filter when that has 3 or more characters; otherwise every candidate
\* when a mandal is selected; otherwise nothing
C14_VillageOptionList ==
  LET list == filteredVillages(mapping, mandal, villageFilter)
      q == trim(villageFilter)
      expected == IF Len(q) >= 3 THEN {v \in CandidateVillages : HoldsText(v, q)}
                  ELSE IF trim(mandal) # Empty THEN CandidateVillages
                  ELSE {}
  IN /\ Range(list) = expected
     /\ Len(list) = Cardinality(expected)

\* a filter of three letters and a blank was typed under a selected mandal and
\* narrows the villages of that mandal
C14_Witness ==
  /\ lastOp.op = "typeVillageFilter"
  /\ trim(mandal) # Empty
  /\ villageFilter # trim(villageFilter)
  /\ Len(trim(villageFilter)) >= 3
  /\ filteredVillages(mapping, mandal, villageFilter) # << >>
  /\ Len(filteredVillages(mapping, mandal, villageFilter)) < Cardinality(CandidateVillages)

\* the distinct mandals of the mapping
DistinctMandals == {mapping[i].mandal : i \in DOMAIN mapping} \ {Empty}

\* a list that holds exactly the members of S, once each and in sorted order
IsSortedListOf(list, S) ==
  /\ Range(list) = S
  /\ \A i, j \in DOMAIN list : i < j => localeCompare(list[i], list[j]) < 0

\* C15 as stated: the mandal option list is the sorted distinct mandals, narrowed to
\* those that hold the filter as typed when the filter as typed has 2 or more
\* characters
C15_MandalOptionListUntrimmed ==
  IsSortedListOf(filteredMandals(mapping, mandalFilter),
                 IF Len(mandalFilter) >= 2
                 THEN {m \in DistinctMandals : HoldsText(m, mandalFilter)}
                 ELSE DistinctMandals)

\* C15, amended: the mandal option list is the sorted distinct mandals, narrowed to
\* those that hold the trimmed filter when the trimmed filter has 2 or more
\* characters, and all of them otherwise
C15_MandalOptionListTrimmed ==
  IsSortedListOf(filteredMandals(mapping, mandalFilter),
                 IF Len(trim(mandalFilter)) >= 2
                 THEN {m \in DistinctMandals : HoldsText(m, trim(mandalFilter))}
                 ELSE DistinctMandals)

\* a filter of two letters and a blank was typed and narrows the mandals
C15_Witness ==
  /\ lastOp.op = "typeMandalFilter"
  /\ mandalFilter # trim(mandalFilter)
  /\ Len(trim(mandalFilter)) = 2
  /\ filteredMandals(mapping, mandalFilter) # << >>
  /\ Len(filteredMandals(mapping, mandalFilter)) < Cardinality(DistinctMandals)

\* C19: no request of the form that updates a record carries approval_status, an
\* insert carries it as 'pending', and no step of the form changes the approval
\* status of a row the table already has; a row the form adds is pending
C19_ApprovalStatusReadOnly ==
  [][/\ lastWrite'.kind = "update" => "approval_status" \notin lastWrite'.columns
     /\ lastWrite'.kind = "insert" =>
          ("approval_status" \in lastWrite'.columns
           /\ lastWrite'.approval_status = "pending")
     /\ lastOp'.op # "crmDecides" =>
          /\ Len(table') >= Len(table)
          /\ \A i \in DOMAIN table : table'[i].approval_status = table[i].approval_status
          /\ \A i \in DOMAIN table' \ DOMAIN table :
               table'[i].approval_status = "pending"]_vars

\* an edit was saved and the record still has the status the CRM gave it
C19_Witness ==
  /\ isEdit
  /\ navigated
  /\ lastOp.op \in {"writeResolved", "imagesUpdateResolved"}
  /\ changes > 0
  /\ \E i \in DOMAIN table : table[i].id = id /\ table[i].approval_status = "approved"

\* every approvals fetch issued has resolved with rows and no realtime event is on
\* its way
Settled ==
  /\ dashPc = "mounted"
  /\ fetches # << >>
  /\ \A k \in DOMAIN fetches : fetches[k].stage = "done"
  /\ events = << >>

\* C20: once every fetch has resolved and every event is delivered, the approvals
\* list holds every row of the table exactly once, with the values the table has,
\* and nothing else
C20_SettledListIsTable ==
  Settled =>
    /\ \A i \in DOMAIN table :
         Cardinality({j \in DOMAIN approvals : approvals[j].id = table[i].id}) = 1
    /\ \A j \in DOMAIN approvals : \E i \in DOMAIN table : approvals[j] = table[i]

\* the entries of a list that an event's record does not share its id with
KeptBy(prev, ev) == {i \in DOMAIN prev : prev[i].id # ev.row.id}

\* C21: the realtime handler turns the list into: the event's record followed by
\* the list, on INSERT; the list with the fields of the event's record written over
\* those of every entry of its id and nothing else touched, on UPDATE; the list
\* without the entries of the event's id, the others in their order, on DELETE; the
\* list itself on any other event
C21_HandlerAppliesEventById ==
  [][lastOp'.op = "realtimeDelivered" =>
       LET ev == Head(events)
           prev == approvals
           out == approvals'
       IN /\ ev.eventType = "INSERT" =>
               /\ Len(out) = Len(prev) + 1
               /\ out[1] = ev.row
               /\ \A i \in DOMAIN prev : out[i + 1] = prev[i]
          /\ ev.eventType = "UPDATE" =>
               /\ Len(out) = Len(prev)
               /\ \A i \in KeptBy(prev, ev) : out[i] = prev[i]
               /\ \A i \in DOMAIN prev \ KeptBy(prev, ev) :
                    /\ DOMAIN out[i] = DOMAIN prev[i] \cup DOMAIN ev.row
                    /\ \A f \in DOMAIN ev.row : out[i][f] = ev.row[f]
                    /\ \A f \in DOMAIN prev[i] \ DOMAIN ev.row : out[i][f] = prev[i][f]
          /\ ev.eventType = "DELETE" =>
               /\ Len(out) = Cardinality(KeptBy(prev, ev))
               /\ \A i \in KeptBy(prev, ev) :
                    out[Cardinality({j \in KeptBy(prev, ev) : j <= i})] = prev[i]
          /\ ev.eventType \notin {"INSERT", "UPDATE", "DELETE"} => out = prev]_vars

\* an UPDATE that carries two of the fields was applied to a list of two entries:
\* the entry of its id has the new status and its old images, the other is as it was
C21_Witness ==
  /\ lastOp = Op("realtimeDelivered", << "UPDATE" >>)
  /\ approvals = << Row(RowId(1), "approved", 1), Row(RowId(2), "approved", 0) >>

\* the text of a value: of a string the string itself, of a number its digits
TextOf(v) == IF v.kind = "boolean" THEN (IF v.val = << "t" >> THEN << "t", "r", "u", "e" >>
                                        ELSE << "f", "a", "l", "s", "e" >>)
             ELSE v.val

\* the first of some columns that is neither absent nor null nor empty, as a
\* sequence of none or one value
FirstPresent(project, keys) ==
  LET present == {i \in DOMAIN keys :
                    /\ keys[i] \in DOMAIN project
                    /\ project[keys[i]].kind # "null"
                    /\ project[keys[i]] # Str(Empty)}
  IN IF present = {} THEN << >>
     ELSE << project[keys[CHOOSE i \in present : \A j \in present : i <= j]] >>

\* a flag counts when toBoolean reads its first present column as true
FlagSet(project, keys) ==
  LET f == FirstPresent(project, keys)
  IN f # << >> /\ toBoolean(f[1]) = "true"

\* C22: the derived status is 'completed' or 'active' when the trimmed lower-cased
\* text of the first present status alias is a completed or an active word;
\* otherwise 'completed' when the completion flag is set, otherwise 'active' when
\* the active flag is set, otherwise 'other'
C22_StatusTextThenFlags ==
  derived # "none" =>
    LET st == FirstPresent(record, StatusAliases)
        text == IF st = << >> THEN Empty ELSE toLowerCase(trim(TextOf(st[1])))
    IN derived = IF text \in CompletedWords THEN "completed"
                 ELSE IF text \in ActiveWords THEN "active"
                 ELSE IF FlagSet(record, CompleteFlags) THEN "completed"
                 ELSE IF FlagSet(record, ActiveFlags) THEN "active"
                 ELSE "other"

\* C23: in every state of the dashboard no two entries of the approvals list
\* have the same id
C23_NoTwoEntriesOfOneId ==
  \A i \in DOMAIN approvals, j \in DOMAIN approvals :
    approvals[i].id = approvals[j].id => i = j

\* C30: of the steps of a delete only the one after the backend's success changes
\* the approvals list, and it removes exactly the entries with the id, keeping
\* the order of the others; a realtime DELETE of the same id applied to the list
\* before or after that step gives the same list
C30_DeleteChangesListOnlyOnSuccess ==
  [][/\ lastOp'.op \in {"handleApprovalDelete", "backendDeletes", "backendRefusesDelete",
                        "approvalDeleteFailed"}
        => approvals' = approvals
     /\ lastOp'.op = "approvalDeleteResolved"
        => LET target == lastOp'.arg[1]
               gone == Event("DELETE", [id |-> target])
               Without(list) == SelectSeq(list, LAMBDA p : p.id # target)
           IN /\ approvals' = Without(approvals)
              /\ ApplyEvent(approvals', gone) = approvals'
              /\ Without(ApplyEvent(approvals, gone)) = approvals']_vars

C30_Witness ==
  /\ lastOp.op = "approvalDeleteResolved"
  /\ approvals # << >>
  /\ \A i \in DOMAIN approvals : approvals[i].id # lastOp.arg[1]
  /\ dashAlerts = 0

\* C24: while the mapping is not empty and manual mode is off, a form village
\* that is not empty is the village of a mapping record and the form mandal is
\* the mandal of that record
C24_VillageAndMandalFromMapping ==
  (ShowSelects /\ ~manualMode /\ village # Empty) =>
    \E i \in DOMAIN mapping : mapping[i].village = village /\ mapping[i].mandal = mandal

\* C25: while manual mode is on, the text of the manual village input is the form
\* village and the text of the manual mandal input is the form mandal
C25_ManualTextsAreFormValues ==
  manualMode => manualVillage = village /\ manualMandal = mandal

\* C26: while no submission is under way and none has succeeded (every one so
\* far has ended with an alert and without navigation), the backend holds no
\* write of the form: no image is stored and, for a new record, no row is inserted
C26_FailedSubmitLeavesNoWrite ==
  (submitPc = "idle" /\ ~navigated) => storage = 0 /\ (~isEdit => table = << >>)

\* the fetches of chitoor_projects that the tab effect has started
AutoFetches == {k \in DOMAIN projFetches : projFetches[k].auto}

\* C27: the tab effect starts at most one fetch of chitoor_projects in the life
\* of a dashboard, none without a backend and none while the approvals tab is shown
C27_AutoFetchAtMostOnce ==
  /\ Cardinality(AutoFetches) <= 1
  /\ \A k \in AutoFetches : hasSupabaseEnv /\ projFetches[k].tab # "approvals"

\* C28: once the selection effect has settled, selectedProjectId is null exactly
\* when the projects list is empty and is otherwise the id of a project of the list
C28_SelectionSettled ==
  ~selPending =>
    /\ (selectedProjectId = Null) <=> (projects = << >>)
    /\ projects # << >> =>
         \E i \in DOMAIN projects : selectedProjectId = Str(getProjectId(projects[i]))

C28_Witness ==
  /\ ~selPending
  /\ Len(projects) = 2
  /\ selectedProjectId = Str(getProjectId(projects[2]))
  /\ getProjectId(projects[1]) # getProjectId(projects[2])

\* C29: a guarded page is rendered only while the auth context has finished
\* loading and holds a user; from a guarded location with loading finished and
\* no user the next step leads to /login and carries the location; a sign-in
\* that succeeded navigates to the carried location, or to "/" when none is carried
C29_GuardedRouting ==
  [][/\ Shown' = "page" => ~authLoading' /\ user' # "null"
     /\ (appPc = "mounted" /\ path \in GuardedPaths /\ ~authLoading /\ user = "null")
        => path' = "/login" /\ fromState' = path
     /\ (lastOp'.op = "signInResolved" /\ signInPc = "ok")
        => path' = IF fromState # "none" THEN fromState ELSE "/"]_vars

C29_Witness ==
  /\ lastOp = Op("signInResolved", << "ok" >>)
  /\ path = "/projects/new"
  /\ Shown = "page"

====
